---- MODULE Spec2Model ----
(***************************************************************************)
(* A model of nbt-glib: the NBT decoder (src/nbt_parse.c), the NBT encoder *)
(* (src/nbt.c) and the tag-tree helpers (src/nbt_util.c).                  *)
(*                                                                         *)
(* Representation.  A byte is a number 0..255.  A fixed-width integer of   *)
(* the program (uint16_t, uint32_t, uint64_t, int64_t, the bit pattern of  *)
(* a float or a double) is the sequence of its base-256 digits, most       *)
(* significant first, so that 64-bit values need no 64-bit arithmetic.     *)
(* The host is little-endian, which is what the code's unconditional       *)
(* bswap_16/32/64 on loads and stores assumes.                             *)
(***************************************************************************)
EXTENDS Integers, Sequences, FiniteSets, TLC

(***************************************************************************)
(* Bounds of the model.                                                    *)
(***************************************************************************)
\* longest sample string, in code points (string specification)
MaxChars == 2
\* most children of a Compound or a List in a generated document
MaxKids == 2
\* most bytes appended after a well-formed document
MaxTrail == 1
\* nodes of the tag-tree arena
MaxNodes == 3

\* the nodes the arena of the editing specification holds at most
MaxCells == 4

\* the bytes that follow the declared length of an array at most
MaxArrayBytes == 16

\* the slots of a region; 1024 in the source
CHUNKS_IN_REGION == 2

\* most polls of the cancellation handle that find it unset before it is set
MaxPolls == 3

\* most g_converter_convert calls a stream takes
MaxChunks == 2

\* most g_converter_convert calls that report no space first
MaxNoSpace == 1


(***************************************************************************)
(* Bytes, digits and the host's memory order.                              *)
(***************************************************************************)
Byte == 0..255

Min(a, b) == IF a < b THEN a ELSE b

RECURSIVE Reverse(_)
Reverse(s) == IF s = <<>> THEN <<>> ELSE Append(Reverse(Tail(s)), Head(s))

RECURSIVE Zeros(_)
Zeros(n) == IF n <= 0 THEN <<>> ELSE <<0>> \o Zeros(n - 1)

RECURSIVE Fill(_, _)
Fill(n, b) == IF n <= 0 THEN <<>> ELSE <<b>> \o Fill(n - 1, b)

Slice(s, from, n) == SubSeq(s, from, from + n - 1)

\* GUINT16/32/64_SWAP_LE_BE: the value with its bytes in the opposite order
bswap(digits) == Reverse(digits)

\* *(uintN_t *)(p): the value a little-endian host loads from the bytes at p
LoadHost(mem) == Reverse(mem)

\* g_byte_array_append (buf, &v, N): the bytes a little-endian host stores for v
StoreHost(digits) == Reverse(digits)

\* (uintN_t) v for a wider v: the low n bytes
Truncate(digits, n) == SubSeq(digits, Len(digits) - n + 1, Len(digits))

\* (int64_t) v for an unsigned narrower v: zero extension
ZeroExtend(digits, n) == Zeros(n - Len(digits)) \o digits

\* (int64_t) v for a signed narrower v: sign extension
SignExtend(digits, n) ==
    Fill(n - Len(digits), IF digits[1] >= 128 THEN 255 ELSE 0) \o digits

\* the number a digit sequence denotes, for values below 2^31
RECURSIVE ToNat(_)
ToNat(digits) ==
    IF digits = <<>> THEN 0
    ELSE (ToNat(SubSeq(digits, 1, Len(digits) - 1)) * 256) + digits[Len(digits)]

\* the n digits of a number
RECURSIVE ToDigits(_, _)
ToDigits(v, n) ==
    IF n = 0 THEN <<>> ELSE Append(ToDigits(v \div 256, n - 1), v % 256)

\* a 32-bit value of 2^31 or more
Huge(digits) == digits[1] >= 128

\* a uint32_t of four bytes as a number: values of 2^31 and more are held
\* as the negative number with the same 32 bits
Uint32(d) ==
    IF d[1] >= 128 THEN ToNat(<<d[1] - 128>> \o Tail(d)) - 2147483647 - 1
    ELSE ToNat(d)

\* strlen: the bytes before the first NUL
RECURSIVE CStr(_)
CStr(b) == IF b = <<>> \/ Head(b) = 0 THEN <<>> ELSE <<Head(b)>> \o CStr(Tail(b))

RECURSIVE SeqsUpTo(_, _)
SeqsUpTo(S, n) ==
    IF n = 0 THEN {<<>>}
    ELSE LET shorter == SeqsUpTo(S, n - 1)
         IN shorter \cup {Append(s, x) : s \in {t \in shorter : Len(t) = n - 1}, x \in S}

RECURSIVE Flatten(_)
Flatten(ss) == IF ss = <<>> THEN <<>> ELSE Head(ss) \o Flatten(Tail(ss))

(***************************************************************************)
(* Modified UTF-8 -> UTF-8 (the decoder's convert_string).                 *)
(***************************************************************************)
\* a char * result: NULL, or a NUL-terminated string
NullStr == [null |-> TRUE, s |-> <<>>]
Str(s) == [null |-> FALSE, s |-> s]

\* str[i] of a NUL-terminated buffer; the terminator reads as 0
At(s, i) == IF i <= Len(s) THEN s[i] ELSE 0

skip_len(c) ==
    IF c >= 1 /\ c <= 127 THEN 1
    ELSE IF (c \div 32) * 32 = 224 THEN 3
    ELSE IF (c \div 64) * 64 = 192 THEN 2
    ELSE 0

\* the loop of convert_string: one UTF-16 code unit per leading byte
RECURSIVE Utf16Units(_, _)
Utf16Units(s, p) ==
    IF At(s, p) = 0 THEN [ok |-> TRUE, u |-> <<>>]
    ELSE LET sl == skip_len(s[p])
             c  == IF sl = 1 THEN s[p]
                   ELSE IF sl = 2
                        THEN ((s[p] % 32) * 64) + (At(s, p + 1) % 64)
                        ELSE (((s[p] % 16) * 4096) + ((At(s, p + 1) % 64) * 64)
                              + (At(s, p + 2) % 64)) % 65536
         IN IF sl = 0 THEN [ok |-> FALSE, u |-> <<>>]
            ELSE LET rest == Utf16Units(s, p + sl)
                 IN IF rest.ok THEN [ok |-> TRUE, u |-> <<c>> \o rest.u]
                    ELSE rest

\* g_unichar_to_utf8
g_unichar_to_utf8(c) ==
    IF c < 128 THEN <<c>>
    ELSE IF c < 2048 THEN <<192 + (c \div 64), 128 + (c % 64)>>
    ELSE IF c < 65536
         THEN <<224 + (c \div 4096), 128 + ((c \div 64) % 64), 128 + (c % 64)>>
    ELSE <<240 + (c \div 262144), 128 + ((c \div 4096) % 64),
           128 + ((c \div 64) % 64), 128 + (c % 64)>>

\* g_utf16_to_utf8 (str, len, NULL, NULL, NULL): stops at a 0 unit or after
\* len units; a lone surrogate is an error (NULL)
RECURSIVE Utf16ToUtf8(_, _, _, _)
Utf16ToUtf8(u, i, len, high) ==
    IF i > Len(u) \/ i > len \/ u[i] = 0
    THEN (IF high # 0 THEN NullStr ELSE Str(<<>>))
    ELSE LET c == u[i] IN
         IF c >= 56320 /\ c <= 57343
         THEN IF high = 0 THEN NullStr
              ELSE LET wc   == ((high - 55296) * 1024) + (c - 56320) + 65536
                       rest == Utf16ToUtf8(u, i + 1, len, 0)
                   IN IF rest.null THEN NullStr
                      ELSE Str(g_unichar_to_utf8(wc) \o rest.s)
         ELSE IF high # 0 THEN NullStr
         ELSE IF c >= 55296 /\ c <= 56319 THEN Utf16ToUtf8(u, i + 1, len, c)
         ELSE LET rest == Utf16ToUtf8(u, i + 1, len, 0)
              IN IF rest.null THEN NullStr
                 ELSE Str(g_unichar_to_utf8(c) \o rest.s)

g_utf16_to_utf8(u, len) == Utf16ToUtf8(u, 1, len, 0)

\* convert_string (str, strlen (str)) for a NUL-terminated str
convert_string(s) ==
    LET r == Utf16Units(s, 1)
    IN IF ~r.ok THEN NullStr ELSE g_utf16_to_utf8(r.u, Len(s))

(***************************************************************************)
(* UTF-8 -> Modified UTF-8 (the encoder's convert_string_to_mutf8).        *)
(***************************************************************************)
\* g_utf8_next_char: the length the leading byte announces
g_utf8_skip(c) ==
    IF c < 192 THEN 1 ELSE IF c < 224 THEN 2 ELSE IF c < 240 THEN 3
    ELSE IF c < 248 THEN 4 ELSE IF c < 252 THEN 5 ELSE IF c < 254 THEN 6 ELSE 1

\* g_utf8_get_char on valid UTF-8
g_utf8_get_char(s, p) ==
    LET n == g_utf8_skip(s[p]) IN
    IF n = 1 THEN s[p]
    ELSE IF n = 2 THEN ((s[p] % 32) * 64) + (At(s, p + 1) % 64)
    ELSE IF n = 3
         THEN ((s[p] % 16) * 4096) + ((At(s, p + 1) % 64) * 64) + (At(s, p + 2) % 64)
    ELSE ((s[p] % 8) * 262144) + ((At(s, p + 1) % 64) * 4096)
         + ((At(s, p + 2) % 64) * 64) + (At(s, p + 3) % 64)

\* the six bytes the source appends for a code point of 0x10000 or more;
\* temp[] is uint8_t, so each sum is kept modulo 256
SurrogateBytes(c0) ==
    LET c     == c0 - 65536
        hipos == ((c \div 1024) % 1024)
        mid3h == ((hipos \div 64) % 16) * 64
        mid3l == ((c \div 64) % 16) * 64
    IN <<237, (160 + mid3h) % 256, (128 + (hipos % 64)) % 256,
         237, (176 + mid3l) % 256, (128 + (c % 64)) % 256>>

RECURSIVE Mutf8From(_, _)
Mutf8From(s, p) ==
    IF At(s, p) = 0 THEN <<>>
    ELSE LET c == g_utf8_get_char(s, p)
         IN (IF c < 65536 THEN g_unichar_to_utf8(c) ELSE CStr(SurrogateBytes(c)))
            \o Mutf8From(s, p + g_utf8_skip(s[p]))

\* convert_string_to_mutf8 (str) for a non-NULL str
convert_string_to_mutf8(s) == Mutf8From(s, 1)

(***************************************************************************)
(* State.  The decoder's run: the wire tree the input was made from, how   *)
(* it was framed and damaged, the input bytes, the step reached, the       *)
(* result of nbt_node_new_opt and the bytes written back.  The string      *)
(* converters' run: the sample, the wire form and the decoded form.        *)
(***************************************************************************)
VARIABLES doc, framing, dmg, input, pc, res, out, opt

VARIABLES str_kind, str_pc, str_in, str_mutf8, str_out

codec_vars == <<doc, framing, dmg, input, pc, res, out, opt>>

str_vars == <<str_kind, str_pc, str_in, str_mutf8, str_out>>

\* the tag-tree API: the nodes created so far (their NbtData), each node's
\* parent (0 for NULL) and ordered children, the last call made and what it
\* returned, and a packing of one node followed by its decoding
VARIABLES nodes, parent, children, call, tpc, packed, unpacked

\* the storage behind the nodes: the buffer holding each node's name and the
\* one holding its string or array payload (0 for NULL), how often each
\* buffer and each node has been released, and the last editing call made
VARIABLES kbuf, vbuf, brel, nrel, edit

edit_vars == <<kbuf, vbuf, brel, nrel, edit>>

tree_vars == <<nodes, parent, children, call, tpc, packed, unpacked, edit_vars>>

\* the region container: the MCA the caller filled, the file written from
\* it, what reading the file back gave, and where the caller stands
VARIABLES mca, file, rd, mpc

mca_vars == <<mca, file, rd, mpc>>

\* a reader on its own: the NBT_Buffer (data, with len the length of data, and
\* pos) and the last read made on it
VARIABLES cursor, fetched

cursor_vars == <<cursor, fetched>>

vars == <<codec_vars, str_vars, tree_vars, mca_vars, cursor_vars>>

(***************************************************************************)
(* Tags, error codes and nodes.                                            *)
(***************************************************************************)
TAG_End == 0
TAG_Byte == 1
TAG_Short == 2
TAG_Int == 3
TAG_Long == 4
TAG_Float == 5
TAG_Double == 6
TAG_Byte_Array == 7
TAG_String == 8
TAG_List == 9
TAG_Compound == 10
TAG_Int_Array == 11
TAG_Long_Array == 12

isValidTag(tag) == tag > TAG_End /\ tag <= TAG_Long_Array

\* NbtGlibParseError, "NONE" for an untouched GError, and "G_IO_ERROR" for an
\* error of GLib's own domain handed on from the decompressor
ParseErrors == {"NONE", "INTERRUPTED", "UNCOMPRESS_ERROR", "LEFTOVER_DATA",
                "INTERNAL", "CANCELLED", "INVALID_TAG", "G_IO_ERROR"}

\* an NbtNode: its NbtData and its children in order.  value_i is the int64
\* payload (8 digits), value_d the bit pattern of the float (4 digits) or the
\* double (8 digits) the payload holds (float -> double is exact), value_a
\* the array: a string's or byte array's bytes, or the elements' digits
MkNode(type, key, value_i, value_d, value_a, a_len, kids) ==
    [type |-> type, key |-> key, value_i |-> value_i, value_d |-> value_d,
     value_a |-> value_a, a_len |-> a_len, kids |-> kids]

\* g_new0 (NbtData, 1) with the type set
create_nbt(tag) == MkNode(tag, NullStr, Zeros(8), <<>>, <<>>, 0, <<>>)

(***************************************************************************)
(* The byte reader (NBT_Buffer): data, and a cursor counted from 0.        *)
(***************************************************************************)
ReadFail(pos) == [n |-> 0, v |-> <<>>, pos |-> pos]

LIBNBT_getUint8(d, pos) ==
    IF pos + 1 > Len(d) THEN ReadFail(pos)
    ELSE [n |-> 1, v |-> <<d[pos + 1]>>, pos |-> pos + 1]

LIBNBT_getUint16(d, pos) ==
    IF pos + 2 > Len(d) THEN ReadFail(pos)
    ELSE [n |-> 2, v |-> bswap(LoadHost(Slice(d, pos + 1, 2))), pos |-> pos + 2]

\* LIBNBT_getUint32 with the cursor moved before the check
LIBNBT_getUint32_moved(d, pos) ==
    IF pos + 4 > Len(d) THEN ReadFail(pos + 4)
    ELSE [n |-> 4, v |-> bswap(LoadHost(Slice(d, pos + 1, 4))), pos |-> pos + 4]

LIBNBT_getUint32(d, pos) ==
    IF pos + 4 > Len(d) THEN ReadFail(pos)
    ELSE [n |-> 4, v |-> bswap(LoadHost(Slice(d, pos + 1, 4))), pos |-> pos + 4]

LIBNBT_getUint64(d, pos) ==
    IF pos + 8 > Len(d) THEN ReadFail(pos)
    ELSE [n |-> 8, v |-> bswap(LoadHost(Slice(d, pos + 1, 8))), pos |-> pos + 8]

LIBNBT_getFloat(d, pos) ==
    IF pos + 4 > Len(d) THEN ReadFail(pos)
    ELSE [n |-> 4, v |-> bswap(LoadHost(Slice(d, pos + 1, 4))), pos |-> pos + 4]

LIBNBT_getDouble(d, pos) ==
    IF pos + 8 > Len(d) THEN ReadFail(pos)
    ELSE [n |-> 8, v |-> bswap(LoadHost(Slice(d, pos + 1, 8))), pos |-> pos + 8]

\* the name: the cursor stays behind the length when the bytes are missing
LIBNBT_getKey(d, pos) ==
    LET l == LIBNBT_getUint16(d, pos) IN
    IF l.n = 0 THEN [n |-> 0, key |-> NullStr, pos |-> l.pos]
    ELSE LET len == ToNat(l.v) IN
         IF len = 0 THEN [n |-> 2, key |-> NullStr, pos |-> l.pos]
         ELSE IF l.pos + len > Len(d) THEN [n |-> 0, key |-> NullStr, pos |-> l.pos]
         ELSE [n |-> 2 + len, key |-> Str(Slice(d, l.pos + 1, len)),
               pos |-> l.pos + len]

\* len * width in uint32_t arithmetic: the product modulo 2^32, as digits
RECURSIVE MulDigits(_, _, _)
MulDigits(digits, w, carry) ==
    IF digits = <<>> THEN <<>>
    ELSE LET last == digits[Len(digits)]
             prod == (last * w) + carry
         IN Append(MulDigits(SubSeq(digits, 1, Len(digits) - 1), w, prod \div 256),
                   prod % 256)

\* buffer->pos + n > buffer->len in size_t arithmetic, n a uint32_t
Beyond(d, pos, n) == Huge(n) \/ ToNat(n) > Len(d) - pos

\* the elements of an array the decoder copies and swaps in place
RECURSIVE SwapElements(_, _)
SwapElements(mem, w) ==
    IF Len(mem) < w THEN <<>>
    ELSE bswap(LoadHost(SubSeq(mem, 1, w)))
         \o SwapElements(SubSeq(mem, w + 1, Len(mem)), w)

(***************************************************************************)
(* parse_value.  polls is the number of polls of the cancellable that      *)
(* still find it unset.  The result: ret (0 on success), the error set,    *)
(* the cursor, the polls left and the node as filled in.                   *)
(***************************************************************************)
NeverCancelled == 1000000

ParseFail(e, pos, polls, node) ==
    [ret |-> 1, err |-> e, pos |-> pos, polls |-> polls, node |-> node]

ParseOk(node, pos, polls) ==
    [ret |-> 0, err |-> "NONE", pos |-> pos, polls |-> polls, node |-> node]

\* integer payloads: the unsigned value read is assigned to value_i
ParseNumber(node, r) ==
    [node EXCEPT !.value_i = ZeroExtend(r.v, 8)]

\* an array of elements of width w; value_a.len is an int32_t, the product
\* len * w a uint32_t
ParseArray(node, d, pos, polls, w) ==
    LET l == LIBNBT_getUint32(d, pos) IN
    IF l.n = 0 THEN ParseFail("INTERRUPTED", l.pos, polls, node)
    ELSE LET bytes == MulDigits(l.v, w, 0) IN
         IF Beyond(d, l.pos, bytes) THEN ParseFail("INTERRUPTED", l.pos, polls, node)
         ELSE LET nb == ToNat(bytes)
                  n  == Uint32(l.v)
              IN ParseOk([node EXCEPT
                            !.a_len = n,
                            !.value_a = IF w = 1 THEN Slice(d, l.pos + 1, nb)
                                        ELSE SwapElements(Slice(d, l.pos + 1, nb), w)],
                         l.pos + nb, polls)

ParseString(node, d, pos, polls) ==
    LET l == LIBNBT_getUint16(d, pos) IN
    IF l.n = 0 THEN ParseFail("INTERRUPTED", l.pos, polls, node)
    ELSE LET len == ToNat(l.v) IN
         IF l.pos + len > Len(d) THEN ParseFail("INTERRUPTED", l.pos, polls, node)
         ELSE LET value     == Slice(d, l.pos + 1, len)
                  new_value == convert_string(CStr(value))
              IN IF new_value.null THEN ParseFail("INTERRUPTED", l.pos, polls, node)
                 ELSE ParseOk([node EXCEPT !.a_len = len + 1,
                                           !.value_a = new_value.s],
                              l.pos + len, polls)

\* list_type == TAG_End && len != 0
BadListHeader_ignored(list_type, len) == FALSE

BadListHeader(list_type, len) == list_type = TAG_End /\ len # Zeros(4)

\* last = g_node_insert_after (node, last, child): last is NULL for the
\* first child, which makes it the first, and the child before for the
\* others
InsertAfterLast_null(kids, child) == <<child>> \o kids

InsertAfterLast(kids, child) == Append(kids, child)

RECURSIVE ParseValue(_, _, _, _, _)
RECURSIVE ParseList(_, _, _, _, _, _)
RECURSIVE ParseCompound(_, _, _, _)

\* the loop of case TAG_List: n elements are still to be read
ParseList(node, list_type, n, d, pos, polls) ==
    IF n = 0 THEN ParseOk(node, pos, polls)
    ELSE LET r == ParseValue(create_nbt(list_type), d, pos, TRUE, polls) IN
         IF r.ret # 0 THEN ParseFail(r.err, r.pos, r.polls, node)
         ELSE ParseList([node EXCEPT !.kids = InsertAfterLast(@, r.node)],
                        list_type, n - 1, d, r.pos, r.polls)

\* the loop of case TAG_Compound
ParseCompound(node, d, pos, polls) ==
    LET t == LIBNBT_getUint8(d, pos) IN
    IF t.n = 0 THEN ParseFail("INTERRUPTED", t.pos, polls, node)
    ELSE IF t.v[1] = 0 THEN ParseOk(node, t.pos, polls)
    ELSE LET r == ParseValue(create_nbt(t.v[1]), d, t.pos, FALSE, polls) IN
         IF r.ret # 0 THEN ParseFail(r.err, r.pos, r.polls, node)
         ELSE ParseCompound([node EXCEPT !.kids = InsertAfterLast(@, r.node)],
                            d, r.pos, r.polls)

\* switch (tag)
ParsePayload(node, tag, d, pos, polls) ==
    IF tag \in {TAG_Byte, TAG_Short, TAG_Int, TAG_Long}
    THEN LET r == IF tag = TAG_Byte THEN LIBNBT_getUint8(d, pos)
                  ELSE IF tag = TAG_Short THEN LIBNBT_getUint16(d, pos)
                  ELSE IF tag = TAG_Int THEN LIBNBT_getUint32(d, pos)
                  ELSE LIBNBT_getUint64(d, pos)
         IN IF r.n = 0 THEN ParseFail("INTERRUPTED", r.pos, polls, node)
            ELSE ParseOk(ParseNumber(node, r), r.pos, polls)
    ELSE IF tag \in {TAG_Float, TAG_Double}
    THEN LET r == IF tag = TAG_Float THEN LIBNBT_getFloat(d, pos)
                  ELSE LIBNBT_getDouble(d, pos)
         IN IF r.n = 0 THEN ParseFail("INTERRUPTED", r.pos, polls, node)
            ELSE ParseOk([node EXCEPT !.value_d = r.v], r.pos, polls)
    ELSE IF tag = TAG_Byte_Array THEN ParseArray(node, d, pos, polls, 1)
    ELSE IF tag = TAG_Int_Array THEN ParseArray(node, d, pos, polls, 4)
    ELSE IF tag = TAG_Long_Array THEN ParseArray(node, d, pos, polls, 8)
    ELSE IF tag = TAG_String THEN ParseString(node, d, pos, polls)
    ELSE IF tag = TAG_List
    THEN LET lt == LIBNBT_getUint8(d, pos) IN
         IF lt.n = 0 THEN ParseFail("INTERRUPTED", lt.pos, polls, node)
         ELSE LET l == LIBNBT_getUint32(d, lt.pos) IN
              IF l.n = 0 THEN ParseFail("INTERRUPTED", l.pos, polls, node)
              ELSE IF BadListHeader(lt.v[1], l.v)
              THEN ParseFail("INVALID_TAG", l.pos, polls, node)
              ELSE \* an element takes at least one byte, so a count beyond
                   \* the bytes left fails like any count that large
                   LET n == IF Huge(l.v) THEN Len(d) + 1
                            ELSE Min(ToNat(l.v), Len(d) + 1)
                   IN ParseList(node, lt.v[1], n, d, l.pos, polls)
    ELSE IF tag = TAG_Compound THEN ParseCompound(node, d, pos, polls)
    ELSE ParseFail("INTERRUPTED", pos, polls, node)

ParseValue(node0, d, pos0, skipkey, polls0) ==
    IF polls0 = 0 THEN ParseFail("CANCELLED", pos0, 0, node0)
    ELSE
    LET polls == polls0 - 1
        t     == IF node0.type = TAG_End THEN LIBNBT_getUint8(d, pos0)
                 ELSE [n |-> 1, v |-> <<node0.type>>, pos |-> pos0]
    IN
    IF t.n = 0 THEN ParseFail("INTERRUPTED", t.pos, polls, node0)
    ELSE IF node0.type = TAG_End /\ ~isValidTag(t.v[1])
    THEN ParseFail("INVALID_TAG", t.pos, polls, node0)
    ELSE
    LET tag  == t.v[1]
        node == [node0 EXCEPT !.type = tag]
    IN
    IF skipkey THEN ParsePayload(node, tag, d, t.pos, polls)
    ELSE LET k == LIBNBT_getKey(d, t.pos) IN
         IF k.n = 0 THEN ParseFail("INTERRUPTED", k.pos, polls, node)
         ELSE IF k.key.null THEN ParsePayload(node, tag, d, k.pos, polls)
         ELSE LET new_key == convert_string(CStr(k.key.s)) IN
              IF new_key.null THEN ParseFail("INTERRUPTED", k.pos, polls, node)
              ELSE ParsePayload([node EXCEPT !.key = new_key], tag, d, k.pos, polls)

\* parse_value as nbt_node_new_opt calls it: buffer->data may be NULL
parse_value(node, buf, skipkey, polls) ==
    IF buf.null THEN ParseFail("INTERNAL", 0, polls, node)
    ELSE ParseValue(node, buf.data, 0, skipkey, polls)

(***************************************************************************)
(* zlib, as far as the program depends on it.  A deflate stream is opaque: *)
(* its first byte is the header of a final fixed-Huffman block carrying    *)
(* the top bit of the first literal's code (0x63 or 0xE3 for a literal     *)
(* below 16), and each further element 256 + b stands for the coded byte   *)
(* b.  A gzip stream begins 1F 8B, a zlib stream begins 78.                *)
(***************************************************************************)
DeflateHead(bytes) == IF bytes # <<>> /\ bytes[1] >= 8 THEN 227 ELSE 99

Deflate(bytes) == <<DeflateHead(bytes)>> \o [i \in 1..Len(bytes) |-> 256 + bytes[i]]

IsDeflate(z) ==
    /\ z # <<>>
    /\ \A i \in 2..Len(z) : z[i] >= 256
    /\ z[1] = DeflateHead([i \in 1..(Len(z) - 1) |-> z[i + 1] - 256])

Inflate(z) == [i \in 1..(Len(z) - 1) |-> z[i + 1] - 256]

\* g_zlib_compressor_new (format, -1) run over the bytes
Compress(format, bytes) ==
    IF format = "GZIP" THEN <<31, 139>> \o Deflate(bytes)
    ELSE IF format = "ZLIB" THEN <<120>> \o Deflate(bytes)
    ELSE Deflate(bytes)

\* what the decompressor makes of a stream: the bytes it decodes to, or an
\* error
Decompress(format, z) ==
    LET body == IF format = "GZIP" THEN SubSeq(z, 3, Len(z))
                ELSE SubSeq(z, 2, Len(z))
    IN IF (format = "GZIP" => Len(z) >= 2 /\ z[1] = 31 /\ z[2] = 139)
          /\ (format = "ZLIB" => Len(z) >= 1 /\ z[1] = 120)
          /\ IsDeflate(body)
       THEN [ok |-> TRUE, bytes |-> Inflate(body)]
       ELSE [ok |-> FALSE, bytes |-> <<>>]

(***************************************************************************)
(* nbt_node_new_opt.  stray is the byte found at data[0] when length is 0. *)
(***************************************************************************)
DetectFormat(data, stray) ==
    LET first == IF data = <<>> THEN stray ELSE data[1] IN
    IF Len(data) > 1 /\ first = 31 /\ data[2] = 139 THEN "GZIP"
    ELSE IF first = 120 THEN "ZLIB"
    ELSE "NONE"

\* g_new0 (guint8, length) is NULL for length 0
init_buffer_dup(data) == [null |-> data = <<>>, data |-> data]

\* buffer->pos != buffer->len after a successful parse
HasLeftover_beyond(pos, len) == pos > len

HasLeftover(pos, len) == pos # len

NewResult(tree, root, err, ret, pos, len) ==
    [tree |-> tree, root |-> root, err |-> err, ret |-> ret, pos |-> pos, len |-> len]

\* how nbt_node_new_opt is called and what zlib does with the stream: err is
\* whether the caller passes an error out-parameter, polls the number of
\* polls of the cancellation handle that find it unset (NeverCancelled for a
\* handle that is never set), chunks the number of g_converter_convert
\* calls the stream takes up to its end or its error, nospace the number
\* of calls that report G_IO_ERROR_NO_SPACE first
Call(err, polls, chunks, nospace) ==
    [err |-> err, polls |-> polls, chunks |-> chunks, nospace |-> nospace]

DefaultCall == Call(TRUE, NeverCancelled, 1, 0)

Spend(polls, n) == IF polls = NeverCancelled THEN polls ELSE polls - n

LoopExit(result, set, seen, hang, polls) ==
    [result |-> result, set |-> set, seen |-> seen, hang |-> hang, polls |-> polls]

\* the decompression loop: each pass polls the handle and breaks when it is
\* set, leaving result as the pass before left it (G_CONVERTER_ERROR at
\* first and after a pass that grew the buffer); an error other than
\* NO_SPACE is stored in *err and ends the loop when err is passed, and is
\* met again on the next pass when it is not
DecompressLoop(format, z, o) ==
    LET need == o.nospace + o.chunks IN
    IF o.polls < need
    THEN LoopExit(IF o.polls <= o.nospace THEN "ERROR" ELSE "CONVERTED",
                  FALSE, TRUE, FALSE, 0)
    ELSE IF Decompress(format, z).ok
    THEN LoopExit("FINISHED", FALSE, FALSE, FALSE, Spend(o.polls, need))
    ELSE IF o.err THEN LoopExit("ERROR", TRUE, FALSE, FALSE, Spend(o.polls, need))
    ELSE IF o.polls = NeverCancelled THEN LoopExit("ERROR", FALSE, FALSE, TRUE, o.polls)
    ELSE LoopExit("ERROR", FALSE, TRUE, FALSE, 0)

\* g_set_error_literal and *err = ... with the caller's err
Reported(o, e) == IF o.err THEN e ELSE "NONE"

\* the call returns: the decompression loop ends
Returns(data, stray, o) ==
    DetectFormat(data, stray) # "NONE"
        => ~DecompressLoop(DetectFormat(data, stray), data, o).hang

\* the value of a call that returns
nbt_node_new_opt(data, stray, o) ==
    LET format == DetectFormat(data, stray)
        z      == Decompress(format, data)
        loop   == DecompressLoop(format, data, o)
    IN
    IF format # "NONE" /\ (loop.set \/ loop.result = "ERROR")
    THEN NewResult(FALSE, create_nbt(TAG_End),
                   IF loop.set THEN "G_IO_ERROR" ELSE "NONE", 1, 0, 0)
    ELSE IF format # "NONE" /\ loop.polls = 0
    THEN NewResult(FALSE, create_nbt(TAG_End), Reported(o, "CANCELLED"), 1, 0,
                   Len(z.bytes))
    ELSE
    LET buffer == IF format = "NONE" THEN init_buffer_dup(data)
                  ELSE [null |-> FALSE, data |-> z.bytes]
        polls  == IF format = "NONE" THEN o.polls ELSE Spend(loop.polls, 1)
        r      == parse_value(create_nbt(TAG_End), buffer, FALSE, polls)
        len    == Len(buffer.data)
    IN
    IF r.ret # 0
    THEN NewResult(FALSE, create_nbt(TAG_End), Reported(o, r.err), r.ret, r.pos, len)
    ELSE NewResult(TRUE, r.node,
                   IF HasLeftover(r.pos, len) THEN Reported(o, "LEFTOVER_DATA")
                   ELSE "NONE",
                   0, r.pos, len)

(***************************************************************************)
(* The encoder (src/nbt.c).                                                *)
(***************************************************************************)
nbt_node_write_uint8_to_gbytearray(value) == Truncate(value, 1)

nbt_node_write_uint16_to_gbytearray(value) == StoreHost(bswap(Truncate(value, 2)))

nbt_node_write_uint32_to_gbytearray(value) == StoreHost(bswap(Truncate(value, 4)))

nbt_node_write_uint64_to_gbytearray(value) == StoreHost(bswap(Truncate(value, 8)))

nbt_node_write_key_to_gbytearray(key, type) ==
    nbt_node_write_uint8_to_gbytearray(<<type>>)
    \o (IF ~key.null /\ At(key.s, 1) # 0
        THEN LET new_key == CStr(convert_string_to_mutf8(key.s))
             IN nbt_node_write_uint16_to_gbytearray(ToDigits(Len(new_key), 8))
                \o new_key
        ELSE nbt_node_write_uint16_to_gbytearray(Zeros(2)))

nbt_node_write_number_to_gbytearray(value, type) ==
    IF type = TAG_Byte THEN nbt_node_write_uint8_to_gbytearray(value)
    ELSE IF type = TAG_Short THEN nbt_node_write_uint16_to_gbytearray(value)
    ELSE IF type = TAG_Int THEN nbt_node_write_uint32_to_gbytearray(value)
    ELSE IF type = TAG_Long THEN nbt_node_write_uint64_to_gbytearray(value)
    ELSE <<>>

\* the value arrives as its bit pattern, is swapped, and is swapped again by
\* the integer writer it is handed to
nbt_node_write_float_to_gbytearray(value) ==
    nbt_node_write_uint32_to_gbytearray(bswap(value))

nbt_node_write_double_to_gbytearray(value) ==
    nbt_node_write_uint64_to_gbytearray(bswap(value))

nbt_node_write_point_to_gbytearray(value, type) ==
    IF type = TAG_Float THEN nbt_node_write_float_to_gbytearray(value)
    ELSE IF type = TAG_Double THEN nbt_node_write_double_to_gbytearray(value)
    ELSE <<>>

RECURSIVE WriteElements(_, _)
WriteElements(value, w) ==
    IF Len(value) < w THEN <<>>
    ELSE (IF w = 1 THEN nbt_node_write_uint8_to_gbytearray(SubSeq(value, 1, 1))
          ELSE IF w = 4 THEN nbt_node_write_uint32_to_gbytearray(SubSeq(value, 1, 4))
          ELSE nbt_node_write_uint64_to_gbytearray(SubSeq(value, 1, 8)))
         \o WriteElements(SubSeq(value, w + 1, Len(value)), w)

\* the length, then len elements of the array
nbt_node_write_array_to_gbytearray(value, len, type) ==
    LET w == IF type = TAG_Byte_Array THEN 1 ELSE IF type = TAG_Int_Array THEN 4 ELSE 8
    IN nbt_node_write_uint32_to_gbytearray(ToDigits(len, 4))
       \o WriteElements(SubSeq(value, 1, len * w), w)

nbt_node_write_string_to_gbytearray(value) ==
    LET output_value == CStr(convert_string_to_mutf8(value))
    IN nbt_node_write_uint16_to_gbytearray(ToDigits(Len(output_value), 8))
       \o output_value

\* the result of a write: ret (0 on success) and the bytes appended
RECURSIVE nbt_node_write_nbt_to_gbytearray(_, _)
RECURSIVE WriteChildren(_, _, _)

\* the loops over node->children; a failing child ends the walk
WriteChildren(kids, i, writekey) ==
    IF i > Len(kids) THEN [ret |-> 0, bytes |-> <<>>]
    ELSE LET r == nbt_node_write_nbt_to_gbytearray(kids[i], writekey) IN
         IF r.ret # 0 THEN r
         ELSE LET rest == WriteChildren(kids, i + 1, writekey)
              IN [ret |-> rest.ret, bytes |-> r.bytes \o rest.bytes]

nbt_node_write_list_to_gbytearray(node) ==
    LET count == Len(node.kids)
        head  == nbt_node_write_uint8_to_gbytearray(
                     IF count = 0 THEN <<0>> ELSE <<node.kids[1].type>>)
                 \o nbt_node_write_uint32_to_gbytearray(ToDigits(count, 4))
        r     == WriteChildren(node.kids, 1, FALSE)
    IN [ret |-> r.ret, bytes |-> head \o r.bytes]

nbt_node_write_compound_to_gbytearray(node) ==
    LET r == WriteChildren(node.kids, 1, TRUE)
    IN IF r.ret # 0 THEN r
       ELSE [ret |-> 0, bytes |-> r.bytes \o nbt_node_write_uint8_to_gbytearray(<<0>>)]

nbt_node_write_nbt_to_gbytearray(node, writekey) ==
    LET key == IF writekey THEN nbt_node_write_key_to_gbytearray(node.key, node.type)
               ELSE <<>>
        t   == node.type
    IN
    IF t \in {TAG_Byte, TAG_Short, TAG_Int, TAG_Long}
    THEN [ret |-> 0, bytes |-> key \o nbt_node_write_number_to_gbytearray(node.value_i, t)]
    ELSE IF t \in {TAG_Float, TAG_Double}
    THEN [ret |-> 0, bytes |-> key \o nbt_node_write_point_to_gbytearray(node.value_d, t)]
    ELSE IF t \in {TAG_Byte_Array, TAG_Int_Array, TAG_Long_Array}
    THEN [ret |-> 0,
          bytes |-> key \o nbt_node_write_array_to_gbytearray(node.value_a, node.a_len, t)]
    ELSE IF t = TAG_String
    THEN [ret |-> 0, bytes |-> key \o nbt_node_write_string_to_gbytearray(node.value_a)]
    ELSE IF t = TAG_List
    THEN LET r == nbt_node_write_list_to_gbytearray(node)
         IN [ret |-> r.ret, bytes |-> key \o r.bytes]
    ELSE IF t = TAG_Compound
    THEN LET r == nbt_node_write_compound_to_gbytearray(node)
         IN [ret |-> r.ret, bytes |-> key \o r.bytes]
    ELSE [ret |-> 1, bytes |-> key]

\* nbt_node_pack_full without a file: the bytes returned, or NULL
nbt_node_pack_full(node, compression) ==
    LET w == nbt_node_write_nbt_to_gbytearray(node, TRUE) IN
    IF w.ret # 0 THEN [null |-> TRUE, bytes |-> <<>>]
    ELSE [null |-> FALSE,
          bytes |-> Compress(IF compression = "GZIP" THEN "GZIP"
                             ELSE IF compression = "ZLIB" THEN "ZLIB"
                             ELSE "RAW", w.bytes)]

(***************************************************************************)
(* Input documents.  A wire tree describes the bytes of one tag as the     *)
(* format lays them out: the tag byte, the name, and the payload, which is *)
(* literal bytes (leaf), an element kind, a declared count and the         *)
(* elements' payloads (list), or named tags and a terminator (compound).   *)
(* Wire trees may be malformed: an invalid tag byte, a non-empty list of   *)
(* element kind End.                                                       *)
(***************************************************************************)
WLeaf(tag, payload) ==
    [tag |-> tag, name |-> <<>>, body |-> "leaf", payload |-> payload,
     ek |-> 0, cnt |-> Zeros(4), kids |-> <<>>]

WList(ek, cnt, kids) ==
    [tag |-> TAG_List, name |-> <<>>, body |-> "list", payload |-> <<>>,
     ek |-> ek, cnt |-> cnt, kids |-> kids]

WCompound(kids) ==
    [tag |-> TAG_Compound, name |-> <<>>, body |-> "compound", payload |-> <<>>,
     ek |-> 0, cnt |-> Zeros(4), kids |-> kids]

Named(w, name) == [w EXCEPT !.name = name]

RECURSIVE WirePayload(_)
RECURSIVE WireTag(_)

WirePayload(w) ==
    IF w.body = "leaf" THEN w.payload
    ELSE IF w.body = "list"
    THEN <<w.ek>> \o w.cnt \o Flatten([i \in 1..Len(w.kids) |-> WirePayload(w.kids[i])])
    ELSE Flatten([i \in 1..Len(w.kids) |-> WireTag(w.kids[i])]) \o <<0>>

WireTag(w) == <<w.tag>> \o ToDigits(Len(w.name), 2) \o w.name \o WirePayload(w)

\* the first malformation the bytes of w show, in wire order
RECURSIVE PayloadAnomaly(_)
RECURSIVE TagAnomaly(_)
RECURSIVE FirstOf(_, _)

FirstOf(as, i) ==
    IF i > Len(as) THEN "none"
    ELSE IF as[i] # "none" THEN as[i] ELSE FirstOf(as, i + 1)

PayloadAnomaly(w) ==
    IF w.body = "leaf" THEN "none"
    ELSE IF w.body = "list"
    THEN IF w.ek = TAG_End /\ w.cnt # Zeros(4) THEN "badlist"
         ELSE IF ~isValidTag(w.ek) /\ w.cnt # Zeros(4) THEN "badtag"
         ELSE FirstOf([i \in 1..Len(w.kids) |-> PayloadAnomaly(w.kids[i])], 1)
    ELSE FirstOf([i \in 1..Len(w.kids) |-> TagAnomaly(w.kids[i])], 1)

TagAnomaly(w) == IF ~isValidTag(w.tag) THEN "badtag" ELSE PayloadAnomaly(w)

WellFormed(w) == TagAnomaly(w) = "none"

\* where the first invalid tag byte stands: the root's tag, a Compound
\* child's tag, or a List's element kind
RECURSIVE BadTagPlace(_, _)
BadTagPlace(w, place) ==
    IF ~isValidTag(w.tag) THEN place
    ELSE IF w.body = "list"
    THEN IF ~isValidTag(w.ek) /\ w.cnt # Zeros(4) THEN "element"
         ELSE LET bad == {i \in 1..Len(w.kids) : PayloadAnomaly(w.kids[i]) # "none"}
              IN IF bad = {} THEN "nowhere"
                 ELSE BadTagPlace(w.kids[CHOOSE i \in bad : \A j \in bad : i <= j],
                                  "element")
    ELSE IF w.body = "compound"
    THEN LET bad == {i \in 1..Len(w.kids) : TagAnomaly(w.kids[i]) # "none"}
         IN IF bad = {} THEN "nowhere"
            ELSE BadTagPlace(w.kids[CHOOSE i \in bad : \A j \in bad : i <= j], "child")
    ELSE "nowhere"

\* the kinds and child counts of a wire tree and of a decoded tree
RECURSIVE WShape(_)
WShape(w) == <<w.tag, [i \in 1..Len(w.kids) |-> WShape(w.kids[i])]>>

RECURSIVE Shape(_)
Shape(n) == <<n.type, [i \in 1..Len(n.kids) |-> Shape(n.kids[i])]>>

\* sample leaves: every scalar and array kind, integers with the top bit
\* set, strings of 1-, 3- and 6-byte Modified UTF-8 units
LeafSamples ==
    { WLeaf(TAG_Byte, <<42>>), WLeaf(TAG_Byte, <<255>>),
      WLeaf(TAG_Short, <<255, 254>>), WLeaf(TAG_Int, <<255, 255, 255, 254>>),
      WLeaf(TAG_Long, <<1, 2, 3, 4, 5, 6, 7, 8>>),
      WLeaf(TAG_Float, <<63, 128, 0, 0>>),
      WLeaf(TAG_Double, <<191, 240, 0, 0, 0, 0, 0, 0>>),
      WLeaf(TAG_Byte_Array, <<0, 0, 0, 0>>),
      WLeaf(TAG_Byte_Array, <<0, 0, 0, 2, 1, 255>>),
      WLeaf(TAG_String, <<0, 0>>), WLeaf(TAG_String, <<0, 1, 65>>),
      WLeaf(TAG_String, <<0, 3, 226, 130, 172>>),
      WLeaf(TAG_String, <<0, 6, 237, 160, 180, 237, 180, 158>>),
      WLeaf(TAG_Int_Array, <<0, 0, 0, 1, 0, 0, 1, 0>>),
      WLeaf(TAG_Long_Array, <<0, 0, 0, 1, 1, 2, 3, 4, 5, 6, 7, 8>>) }

Names == {<<>>, <<97>>}

\* a tag byte that names no kind
BadTag == TAG_Long_Array + 1

SeqsFrom1(S, n) == SeqsUpTo(S, n) \ {<<>>}

\* children of the inner compounds
K1 == { Named(WLeaf(TAG_Byte, <<42>>), <<97>>), Named(WLeaf(TAG_Float, <<63, 128, 0, 0>>), <<>>),
        Named(WLeaf(TAG_String, <<0, 1, 65>>), <<97>>), Named(WLeaf(BadTag, <<>>), <<97>>) }

ListsOf(ek, elems) ==
    {WList(ek, ToDigits(Len(ks), 4), ks) : ks \in SeqsFrom1(elems, MaxKids)}

\* lists claiming elements of kind End, or of no kind
BadLists == {WList(TAG_End, <<0, 0, 0, 1>>, <<>>), WList(BadTag, <<0, 0, 0, 1>>, <<>>)}

Level1 ==
    {WCompound(ks) : ks \in SeqsUpTo(K1, MaxKids)}
    \cup ListsOf(TAG_Byte, {WLeaf(TAG_Byte, <<42>>), WLeaf(TAG_Byte, <<255>>)})
    \cup ListsOf(TAG_Float, {WLeaf(TAG_Float, <<63, 128, 0, 0>>)})
    \cup ListsOf(TAG_String, {WLeaf(TAG_String, <<0, 1, 65>>)})
    \cup {WList(ek, Zeros(4), <<>>) : ek \in {TAG_End, TAG_Int, BadTag}}
    \cup BadLists

\* children of the outer compounds, and elements of the outer lists
K2 == { Named(WLeaf(TAG_Byte, <<255>>), <<97>>), Named(WCompound(<<>>), <<97>>),
        Named(WList(TAG_Byte, <<0, 0, 0, 1>>, <<WLeaf(TAG_Byte, <<42>>)>>), <<>>),
        Named(WList(TAG_End, <<0, 0, 0, 1>>, <<>>), <<97>>),
        Named(WList(TAG_End, Zeros(4), <<>>), <<97>>) }

Level2 ==
    {WCompound(ks) : ks \in SeqsUpTo(K2, MaxKids)}
    \cup ListsOf(TAG_List, { WList(TAG_End, Zeros(4), <<>>),
                             WList(TAG_Byte, <<0, 0, 0, 1>>, <<WLeaf(TAG_Byte, <<42>>)>>),
                             WList(TAG_End, <<0, 0, 0, 1>>, <<>>) })
    \cup ListsOf(TAG_Compound, { WCompound(<<>>),
                                 WCompound(<<Named(WLeaf(BadTag, <<>>), <<>>)>>),
                                 WCompound(<<Named(WList(TAG_End, <<0, 0, 0, 1>>, <<>>), <<97>>)>>),
                                 WCompound(<<Named(WLeaf(TAG_Byte, <<42>>), <<97>>)>>) })

Docs ==
    {Named(w, nm) : w \in LeafSamples \cup Level1 \cup Level2, nm \in Names}
    \cup {WLeaf(TAG_End, <<>>), WLeaf(BadTag, <<>>)}

TrailBytes == {0, 7}

(***************************************************************************)
(* The decoder specification: nbt_node_new_opt applied to an input, and    *)
(* the tree it returns written back by nbt_node_write_nbt_to_gbytearray.   *)
(***************************************************************************)
NoResult == NewResult(FALSE, create_nbt(TAG_End), "NONE", 0, 0, 0)

NoOutput == [ret |-> 0, bytes |-> <<>>]

\* what data[0] may hold when length is 0
StrayBytes == {0, 10, 120}

Framed(f, bytes) == IF f = "plain" THEN bytes ELSE Compress(f, bytes)

(***************************************************************************)
(* The MCA region container (MCA_Init, MCA_WriteRaw_File, MCA_ReadRaw,     *)
(* MCA_ReadRaw_File).  The source has 1024 slots and sectors of 4096       *)
(* bytes, so that the offset table of 4 bytes a slot fills sector 0 and    *)
(* the timestamps fill sector 1; the model keeps that relation for fewer   *)
(* slots.  Slot j of the source is element j + 1 of the sequences here; a  *)
(* file or buffer position p is element p + 1.                             *)
(***************************************************************************)
\* 1 << 12 in the source: the bytes of a sector
SECTOR == 4 * CHUNKS_IN_REGION

\* 0xf0000000 as an int
LIBNBT_ERROR_MASK == 0 - 268435456

LIBNBT_ERROR_INVALID_DATA == LIBNBT_ERROR_MASK + 4

NullBuffer == [null |-> TRUE, freed |-> FALSE, bytes |-> <<>>]

Buffer(bytes) == [null |-> FALSE, freed |-> FALSE, bytes |-> bytes]

SlotSet == 1..CHUNKS_IN_REGION

Mca(rawdata, size, epoch) == [rawdata |-> rawdata, size |-> size, epoch |-> epoch]

\* MCA_Init / MCA_Init_WithPos: memset (ret, 0, sizeof (MCA))
MCA_Init ==
    Mca([j \in SlotSet |-> NullBuffer], [j \in SlotSet |-> 0],
        [j \in SlotSet |-> Zeros(4)])

\* fseek (fp, pos, SEEK_SET) and a write of bs: the bytes between the old
\* end of the file and pos read as 0
PutAt(f, pos, bs) ==
    IF bs = <<>> THEN f
    ELSE [p \in 1..(IF Len(f) > pos + Len(bs) THEN Len(f) ELSE pos + Len(bs)) |->
             IF p > pos /\ p <= pos + Len(bs) THEN bs[p - pos]
             ELSE IF p <= Len(f) THEN f[p] ELSE 0]

\* the sector count written for a chunk that starts in sector current and
\* ends at byte position end: newpos - current, kept to 8 bits
SectorCount(current, end) == ((end \div SECTOR) + 1 - current) % 256

\* the first loop of MCA_WriteRaw_File from slot i on
RECURSIVE WriteChunks(_, _, _, _, _)
WriteChunks(m, i, current, offsets, f) ==
    IF i > CHUNKS_IN_REGION THEN [offsets |-> offsets, file |-> f]
    ELSE IF m.rawdata[i].null THEN WriteChunks(m, i + 1, current, Append(offsets, 0), f)
    ELSE LET size   == m.size[i] + 1
             chunk  == ToDigits(size, 4) \o <<2>> \o SubSeq(m.rawdata[i].bytes, 1, size - 1)
             f1     == PutAt(f, current * SECTOR, chunk)
             end    == current * SECTOR + Len(chunk)
             newpos == (end \div SECTOR) + 1
         IN WriteChunks(m, i + 1, newpos,
                        Append(offsets, current * 256 + SectorCount(current, end)), f1)

\* MCA_WriteRaw_File on an empty file, time (NULL) being now: the chunks,
\* the offset table, the timestamp of every slot, the padding
MCA_WriteRaw_File(m, now) ==
    LET w   == WriteChunks(m, 1, 2, <<>>, <<>>)
        f1  == PutAt(w.file, 0, Flatten([j \in SlotSet |-> ToDigits(w.offsets[j], 4)]))
        f2  == PutAt(f1, SECTOR, Flatten([j \in SlotSet |-> StoreHost(bswap(now))]))
        len == Len(f2)
    IN [ret |-> 0, offsets |-> w.offsets,
        file |-> IF len % SECTOR # 0
                 THEN PutAt(f2, ((len \div SECTOR) + 1) * SECTOR - 1, <<0>>)
                 ELSE f2]

\* tsize - 1 in uint32_t
Minus1(v) == IF v = 0 - 2147483647 - 1 THEN 2147483647 ELSE v - 1

\* whether size bytes from position from reach beyond len bytes
PastEnd(from, size, len) == size < 0 \/ size > len \/ from + size > len

\* what the readers return: the code, the MCA as they leave it, and
\* whether bytes outside the input were read
ReadResult(ret, m, overread) == [ret |-> ret, mca |-> m, overread |-> overread]

\* the offset of slot j in bytes, 0 when the slot is skipped, and whether
\* the entry reaches beyond the input
OffsetEntry(data, j) ==
    LET temp == LIBNBT_getUint32(data, 4 * (j - 1)).v
        off  == ToNat(SubSeq(temp, 1, 3)) * SECTOR
    IN [off |-> off, bad |-> temp[4] * SECTOR + off > Len(data)]

\* malloc (0) returns NULL or a pointer
Malloc0 == {"null", "pointer"}

\* the third loop of MCA_ReadRaw from slot j on
RECURSIVE ReadChunks(_, _, _, _, _, _, _)
ReadChunks(data, m, offsets, j, skip, malloc0, overread) ==
    IF j > CHUNKS_IN_REGION THEN ReadResult(0, m, overread)
    ELSE IF offsets[j] = 0
    THEN ReadChunks(data, m, offsets, j + 1, skip, malloc0, overread)
    ELSE LET l == LIBNBT_getUint32(data, offsets[j])
             t == LIBNBT_getUint8(data, l.pos)
             chunk_error ==
                 ReadResult(LIBNBT_ERROR_INVALID_DATA,
                            [m EXCEPT !.rawdata =
                                [i \in SlotSet |->
                                    IF i <= j /\ ~m.rawdata[i].null
                                    THEN [m.rawdata[i] EXCEPT !.freed = TRUE]
                                    ELSE m.rawdata[i]]],
                            overread)
         IN IF l.n = 0
            THEN IF skip
                 THEN ReadChunks(data, m, offsets, j + 1, skip, malloc0, overread)
                 ELSE chunk_error
            ELSE IF (t.n = 0 \/ t.v # <<2>>) /\ ~skip THEN chunk_error
            ELSE LET size == Minus1(Uint32(l.v))
                     from == offsets[j] + 5
                     got  == IF PastEnd(from, size, Len(data))
                             THEN SubSeq(data, from + 1, Len(data))
                             ELSE SubSeq(data, from + 1, from + size)
                     buf  == IF size = 0 /\ malloc0 = "null" THEN NullBuffer
                             ELSE Buffer(got)
                 IN ReadChunks(data,
                               [m EXCEPT !.rawdata[j] = buf, !.size[j] = size],
                               offsets, j + 1, skip, malloc0,
                               overread \/ PastEnd(from, size, Len(data)))

\* MCA_ReadRaw (data, length, mca, skip_chunk_error)
MCA_ReadRaw(data, m, skip, malloc0) ==
    LET cleared == [m EXCEPT !.rawdata = [j \in SlotSet |-> NullBuffer],
                             !.size = [j \in SlotSet |-> 0]]
        entries == [j \in SlotSet |-> OffsetEntry(data, j)]
        offsets == [j \in SlotSet |-> IF entries[j].bad THEN 0 ELSE entries[j].off]
        epochs  == [j \in SlotSet |-> LIBNBT_getUint32(data, SECTOR + 4 * (j - 1)).v]
    IN IF Len(data) <= 2 * SECTOR
       THEN ReadResult(LIBNBT_ERROR_INVALID_DATA, cleared, FALSE)
       ELSE IF ~skip /\ \E j \in SlotSet : entries[j].bad
       THEN ReadResult(LIBNBT_ERROR_INVALID_DATA, cleared, FALSE)
       ELSE ReadChunks(data, [cleared EXCEPT !.epoch = epochs], offsets, 1, skip,
                       malloc0, FALSE)

\* fgetc at position pos: the byte, or EOF (-1) whose low bits are all ones
fgetc(f, pos) == IF pos < Len(f) THEN f[pos + 1] ELSE 255

\* the third loop of MCA_ReadRaw_File from slot j on: the length and the
\* type are read with fgetc and the bytes with fread, which stops at the
\* end of the file
RECURSIVE ReadChunks_File(_, _, _, _, _, _)
ReadChunks_File(f, m, offsets, j, skip, malloc0) ==
    IF j > CHUNKS_IN_REGION THEN ReadResult(0, m, FALSE)
    ELSE IF offsets[j] = 0 THEN ReadChunks_File(f, m, offsets, j + 1, skip, malloc0)
    ELSE LET tsize == [k \in 1..4 |-> fgetc(f, offsets[j] + k - 1)]
             type  == fgetc(f, offsets[j] + 4)
             size  == Minus1(Uint32(tsize))
             from  == offsets[j] + 5
             got   == IF PastEnd(from, size, Len(f)) THEN SubSeq(f, from + 1, Len(f))
                      ELSE SubSeq(f, from + 1, from + size)
             buf   == IF size = 0 /\ malloc0 = "null" THEN NullBuffer ELSE Buffer(got)
             m1    == [m EXCEPT !.rawdata[j] = buf, !.size[j] = size]
             chunk_error(mm) ==
                 ReadResult(LIBNBT_ERROR_INVALID_DATA,
                            [mm EXCEPT !.rawdata =
                                [i \in SlotSet |->
                                    IF i <= j /\ ~mm.rawdata[i].null
                                    THEN [mm.rawdata[i] EXCEPT !.freed = TRUE]
                                    ELSE mm.rawdata[i]]],
                            FALSE)
         IN IF type # 2 /\ ~skip THEN chunk_error(m)
            ELSE IF Len(got) # size /\ ~skip THEN chunk_error(m1)
            ELSE ReadChunks_File(f, m1, offsets, j + 1, skip, malloc0)

\* MCA_ReadRaw_File (fp, mca, skip_chunk_error) on a file of bytes f
MCA_ReadRaw_File(f, m, skip, malloc0) ==
    LET cleared == [m EXCEPT !.rawdata = [j \in SlotSet |-> NullBuffer],
                             !.size = [j \in SlotSet |-> 0]]
        entries == [j \in SlotSet |-> OffsetEntry(f, j)]
        offsets == [j \in SlotSet |-> IF entries[j].bad THEN 0 ELSE entries[j].off]
        epochs  == [j \in SlotSet |-> [k \in 1..4 |-> fgetc(f, SECTOR + 4 * (j - 1) + k - 1)]]
    IN IF Len(f) <= 2 * SECTOR
       THEN ReadResult(LIBNBT_ERROR_INVALID_DATA, cleared, FALSE)
       ELSE IF ~skip /\ \E j \in SlotSet : entries[j].bad
       THEN ReadResult(LIBNBT_ERROR_INVALID_DATA, cleared, FALSE)
       ELSE ReadChunks_File(f, [cleared EXCEPT !.epoch = epochs], offsets, 1, skip, malloc0)


(***************************************************************************)
(* The MCAs the caller fills, and the region variables at rest.             *)
(***************************************************************************)
\* the bytes of a raw chunk of n bytes in slot j
RawBytes(j, n) == [k \in 1..n |-> (7 * k + j) % 256]

\* the sizes of the raw chunks: none, one byte, up to the end of a sector
\* and one more, and the least that takes 256 sectors
RawSizes == {0, 1, SECTOR - 5, SECTOR - 4, 255 * SECTOR - 5}

\* the slots as the caller fills them: absent, or a buffer of one of the
\* sizes
SlotFills ==
    {NullBuffer} \cup {Buffer(RawBytes(1, n)) : n \in RawSizes}

\* the timestamps the caller sets, and the times of writing
Epochs == {Zeros(4), <<0, 0, 0, 5>>}

Clocks == {<<0, 0, 0, 5>>, <<101, 66, 160, 0>>}

\* a read as the caller sees it: the reader called, its skip_chunk_error
\* argument, and what it returned
Read(reader, skip, r) ==
    [ret |-> r.ret, mca |-> r.mca, overread |-> r.overread, reader |-> reader,
     skip |-> skip]

NoRead == Read("none", FALSE, ReadResult(0, MCA_Init, FALSE))

NoneRead == [fn |-> "none", n |-> 0, from |-> 0]

CursorIdle ==
    /\ cursor = [data |-> <<>>, pos |-> 0]
    /\ fetched = NoneRead

McaIdle ==
    /\ mca = MCA_Init
    /\ file = <<>>
    /\ rd = NoRead
    /\ mpc = "idle"

StrIdle ==
    /\ str_kind = "idle"
    /\ str_pc = "idle"
    /\ str_in = <<>>
    /\ str_mutf8 = <<>>
    /\ str_out = NullStr

CodecIdle ==
    /\ doc = WLeaf(TAG_End, <<>>)
    /\ framing = "plain"
    /\ dmg = "idle"
    /\ input = <<>>
    /\ pc = "idle"
    /\ res = NoResult
    /\ out = NoOutput
    /\ opt = DefaultCall

NoCall ==
    [op |-> "none", parent |-> 0, sibling |-> 0, node |-> 0, ret |-> FALSE,
     old_parent |-> <<>>, old_children |-> <<>>]

NoPack == [node |-> 0, compression |-> "NONE", null |-> TRUE, bytes |-> <<>>]

NoEdit ==
    [op |-> "none", root |-> 0, index |-> 0, key |-> NullStr, found |-> 0,
     ret |-> 0, crash |-> FALSE,
     old |-> [nodes |-> <<>>, parent |-> <<>>, children |-> <<>>, kbuf |-> <<>>,
              vbuf |-> <<>>, brel |-> <<>>, nrel |-> <<>>]]

EditIdle ==
    /\ kbuf = <<>>
    /\ vbuf = <<>>
    /\ brel = <<>>
    /\ nrel = <<>>
    /\ edit = NoEdit

TreeIdle ==
    /\ nodes = <<>>
    /\ parent = <<>>
    /\ children = <<>>
    /\ call = NoCall
    /\ tpc = "idle"
    /\ packed = NoPack
    /\ unpacked = NoResult
    /\ EditIdle

CodecInit ==
    /\ doc \in Docs
    /\ \/ /\ dmg = "none"
          /\ framing \in {"plain", "GZIP", "ZLIB"}
          /\ input = Framed(framing, WireTag(doc))
       \/ /\ dmg = "prefix"
          /\ WellFormed(doc)
          /\ framing = "plain"
          /\ \E k \in 0..(Len(WireTag(doc)) - 1) : input = SubSeq(WireTag(doc), 1, k)
       \/ /\ dmg = "trail"
          /\ WellFormed(doc)
          /\ framing \in {"plain", "GZIP", "ZLIB"}
          /\ \E tr \in SeqsFrom1(TrailBytes, MaxTrail) :
                input = Framed(framing, WireTag(doc) \o tr)
    /\ pc = "input"
    /\ res = NoResult
    /\ out = NoOutput
    /\ opt = DefaultCall

\* a call whose decompression loop does not end leaves the caller waiting
Decode ==
    /\ pc = "input"
    /\ \E stray \in StrayBytes :
          IF Returns(input, stray, opt)
          THEN res' = nbt_node_new_opt(input, stray, opt) /\ pc' = "decoded"
          ELSE res' = res /\ pc' = "decompressing"
    /\ UNCHANGED <<doc, framing, dmg, input, out, opt>>
    /\ UNCHANGED <<str_vars, tree_vars, mca_vars, cursor_vars>>

Encode ==
    /\ pc = "decoded"
    /\ res.tree
    /\ out' = nbt_node_write_nbt_to_gbytearray(res.root, TRUE)
    /\ pc' = "encoded"
    /\ UNCHANGED <<doc, framing, dmg, input, res, opt>>
    /\ UNCHANGED <<str_vars, tree_vars, mca_vars, cursor_vars>>

CodecNext == Decode \/ Encode

Init == CodecInit /\ StrIdle /\ TreeIdle /\ McaIdle /\ CursorIdle

Next == CodecNext

Spec == Init /\ [][Next]_vars

(***************************************************************************)
(* The string specification: convert_string_to_mutf8 and convert_string    *)
(* applied to sample strings.                                              *)
(***************************************************************************)

\* sample code points: 1-, 2- and 3-byte BMP characters and supplementary ones
SampleChars == {65, 127, 233, 2047, 8364, 65536, 119070, 1114111}

\* sample bytes of raw Modified UTF-8 input: ASCII, a continuation byte,
\* 2- and 3-byte leaders, and bytes of F0..FF
SampleRaw == {65, 129, 195, 237, 240, 255}

Utf8Of(cps) == Flatten([i \in 1..Len(cps) |-> g_unichar_to_utf8(cps[i])])

\* valid UTF-8 strings without U+0000
Utf8Samples == {Utf8Of(cps) : cps \in SeqsUpTo(SampleChars, MaxChars)}

\* every unit of the string lies before the terminator
RECURSIVE UnitsComplete(_, _)
UnitsComplete(s, p) ==
    IF p > Len(s) THEN TRUE
    ELSE LET sl == skip_len(s[p])
         IN sl = 0 \/ (p + sl - 1 <= Len(s) /\ UnitsComplete(s, p + sl))

RawSamples == {s \in SeqsUpTo(SampleRaw, MaxChars + 1) : UnitsComplete(s, 1)}

StrInit ==
    /\ \/ str_kind = "utf8" /\ str_in \in Utf8Samples
       \/ str_kind = "raw" /\ str_in \in RawSamples
    /\ str_pc = "start"
    /\ str_mutf8 = <<>>
    /\ str_out = NullStr
    /\ CodecIdle
    /\ TreeIdle
    /\ McaIdle
    /\ CursorIdle

\* the encoder's side: nbt_node_write_string_to_gbytearray converts the
\* in-memory string and writes strlen (output) bytes
StrEncode ==
    /\ str_pc = "start"
    /\ str_kind = "utf8"
    /\ str_mutf8' = CStr(convert_string_to_mutf8(str_in))
    /\ str_pc' = "wire"
    /\ UNCHANGED <<str_kind, str_in, str_out>>
    /\ UNCHANGED <<codec_vars, tree_vars, mca_vars, cursor_vars>>

\* raw bytes arrive on the wire as they are
StrReceive ==
    /\ str_pc = "start"
    /\ str_kind = "raw"
    /\ str_mutf8' = str_in
    /\ str_pc' = "wire"
    /\ UNCHANGED <<str_kind, str_in, str_out>>
    /\ UNCHANGED <<codec_vars, tree_vars, mca_vars, cursor_vars>>

\* the decoder's side: parse_value copies the payload, terminates it and
\* calls convert_string (value, strlen (value))
StrDecode ==
    /\ str_pc = "wire"
    /\ str_out' = convert_string(CStr(str_mutf8))
    /\ str_pc' = "done"
    /\ UNCHANGED <<str_kind, str_in, str_mutf8>>
    /\ UNCHANGED <<codec_vars, tree_vars, mca_vars, cursor_vars>>

StrNext == StrEncode \/ StrReceive \/ StrDecode

SpecStr == StrInit /\ [][StrNext]_vars

(***************************************************************************)
(* The tag-tree API (src/nbt_util.c) over an arena of nodes.  A node is    *)
(* its index in nodes; parent[n] is 0 for a node without a parent, and     *)
(* children[n] lists the children first to last.  GLib is built with its   *)
(* argument checks (g_return_val_if_fail) on.                              *)
(***************************************************************************)
g_strdup(str) == IF str.null THEN NullStr ELSE Str(CStr(str.s))

create_node(tag, key) == [create_nbt(tag) EXCEPT !.key = g_strdup(key)]

\* the integer builders assign a signed value to the 64-bit value_i
nbt_node_new_byte(key, value) ==
    [create_node(TAG_Byte, key) EXCEPT !.value_i = SignExtend(value, 8)]

nbt_node_new_short(key, value) ==
    [create_node(TAG_Short, key) EXCEPT !.value_i = SignExtend(value, 8)]

nbt_node_new_int(key, value) ==
    [create_node(TAG_Int, key) EXCEPT !.value_i = SignExtend(value, 8)]

nbt_node_new_long(key, value) ==
    [create_node(TAG_Long, key) EXCEPT !.value_i = SignExtend(value, 8)]

nbt_node_new_float(key, value) ==
    [create_node(TAG_Float, key) EXCEPT !.value_d = value]

nbt_node_new_double(key, value) ==
    [create_node(TAG_Double, key) EXCEPT !.value_d = value]

nbt_node_new_string(key, value) ==
    [create_node(TAG_String, key) EXCEPT !.value_a = CStr(value), !.a_len = 1]

nbt_node_new_byte_array(key, value, len) ==
    [create_node(TAG_Byte_Array, key) EXCEPT !.value_a = SubSeq(value, 1, len),
                                             !.a_len = len]

nbt_node_new_int_array(key, value, len) ==
    [create_node(TAG_Int_Array, key) EXCEPT !.value_a = SubSeq(value, 1, len * 4),
                                            !.a_len = len]

nbt_node_new_long_array(key, value, len) ==
    [create_node(TAG_Long_Array, key) EXCEPT !.value_a = SubSeq(value, 1, len * 8),
                                             !.a_len = len]

nbt_node_new_compound(key) == create_node(TAG_Compound, key)

nbt_node_new_list(key) == create_node(TAG_List, key)

\* the getters return value_i converted to the kind's width
nbt_node_get_byte(node) == Truncate(node.value_i, 1)

nbt_node_get_short(node) == Truncate(node.value_i, 2)

nbt_node_get_int(node) == Truncate(node.value_i, 4)

nbt_node_get_long(node) == node.value_i

nbt_node_get_float(node) == node.value_d

nbt_node_get_double(node) == node.value_d

nbt_node_get_string(node) == node.value_a

\* the payload of a node as the getter of its kind reports it
Payload(node) ==
    IF node.type = TAG_Byte THEN nbt_node_get_byte(node)
    ELSE IF node.type = TAG_Short THEN nbt_node_get_short(node)
    ELSE IF node.type = TAG_Int THEN nbt_node_get_int(node)
    ELSE IF node.type = TAG_Long THEN nbt_node_get_long(node)
    ELSE IF node.type = TAG_Float THEN nbt_node_get_float(node)
    ELSE IF node.type = TAG_Double THEN nbt_node_get_double(node)
    ELSE IF node.type = TAG_String THEN nbt_node_get_string(node)
    ELSE IF node.type \in {TAG_Byte_Array, TAG_Int_Array, TAG_Long_Array}
    THEN <<node.a_len, node.value_a>>
    ELSE <<>>

\* the links of the arena
Links(par, chl) == [parent |-> par, children |-> chl]

InsertAt(seq, i, e) == SubSeq(seq, 1, i - 1) \o <<e>> \o SubSeq(seq, i, Len(seq))

IndexOf(seq, e) == CHOOSE i \in 1..Len(seq) : seq[i] = e

G_NODE_IS_ROOT(par, n) == par[n] = 0

\* GLib's g_node_insert_before (parent, sibling, node): refuses a node that
\* is not a root and a sibling that is not a child of parent; a NULL
\* sibling appends
g_node_insert_before(par, chl, p, sibling, n) ==
    IF ~G_NODE_IS_ROOT(par, n) THEN Links(par, chl)
    ELSE IF sibling # 0 /\ par[sibling] # p THEN Links(par, chl)
    ELSE Links([par EXCEPT ![n] = p],
               [chl EXCEPT ![p] =
                   IF sibling # 0 THEN InsertAt(chl[p], IndexOf(chl[p], sibling), n)
                   ELSE Append(chl[p], n)])

\* GLib's g_node_insert_after (parent, sibling, node): a NULL sibling
\* prepends
g_node_insert_after(par, chl, p, sibling, n) ==
    IF ~G_NODE_IS_ROOT(par, n) THEN Links(par, chl)
    ELSE IF sibling # 0 /\ par[sibling] # p THEN Links(par, chl)
    ELSE Links([par EXCEPT ![n] = p],
               [chl EXCEPT ![p] =
                   IF sibling # 0 THEN InsertAt(chl[p], IndexOf(chl[p], sibling) + 1, n)
                   ELSE <<n>> \o chl[p]])

\* parent->children, or NULL
FirstChild(chl, p) == IF chl[p] = <<>> THEN 0 ELSE chl[p][1]

g_node_prepend(par, chl, p, n) ==
    g_node_insert_before(par, chl, p, FirstChild(chl, p), n)

g_node_append(par, chl, p, n) == g_node_insert_before(par, chl, p, 0, n)

\* the outcome of an insertion: what it returns and the links afterwards
Refused(par, chl) == [ret |-> FALSE, links |-> Links(par, chl)]

Done(links) == [ret |-> TRUE, links |-> links]

\* the check nbt_node_prepend and nbt_node_append make on a List that has
\* children: the child is of the kind of the first child
FirstChildMismatch_never(nd, chl, p, child) == FALSE

FirstChildMismatch(nd, chl, p, child) ==
    /\ nd[p].type = TAG_List
    /\ chl[p] # <<>>
    /\ nd[chl[p][1]].type # nd[child].type

IsContainer(data) == data.type = TAG_Compound \/ data.type = TAG_List

nbt_node_prepend(nd, par, chl, p, child) ==
    IF p = 0 \/ child = 0 THEN Refused(par, chl)
    ELSE IF ~IsContainer(nd[p]) THEN Refused(par, chl)
    ELSE IF FirstChildMismatch(nd, chl, p, child) THEN Refused(par, chl)
    ELSE Done(g_node_prepend(par, chl, p, child))

nbt_node_append(nd, par, chl, p, child) ==
    IF p = 0 \/ child = 0 THEN Refused(par, chl)
    ELSE IF ~IsContainer(nd[p]) THEN Refused(par, chl)
    ELSE IF FirstChildMismatch(nd, chl, p, child) THEN Refused(par, chl)
    ELSE Done(g_node_append(par, chl, p, child))

\* the checks of insertion without the comparison of kinds
InsertRefused_nokind(nd, par, chl, p, sibling, n) ==
    \/ n = 0 \/ p = 0
    \/ ~G_NODE_IS_ROOT(par, n)
    \/ ~IsContainer(nd[p])
    \/ nd[p].type = TAG_List /\ sibling # 0 /\ par[sibling] # p

\* the checks nbt_node_insert_before and nbt_node_insert_after share
InsertRefused(nd, par, chl, p, sibling, n) ==
    \/ n = 0 \/ p = 0
    \/ ~G_NODE_IS_ROOT(par, n)
    \/ ~IsContainer(nd[p])
    \/ /\ nd[p].type = TAG_List
       /\ IF sibling # 0
          THEN par[sibling] # p \/ nd[n].type # nd[sibling].type
          ELSE chl[p] # <<>> /\ nd[chl[p][1]].type # nd[n].type

nbt_node_insert_before(nd, par, chl, p, sibling, n) ==
    IF InsertRefused(nd, par, chl, p, sibling, n) THEN Refused(par, chl)
    ELSE Done(g_node_insert_before(par, chl, p, sibling, n))

nbt_node_insert_after(nd, par, chl, p, sibling, n) ==
    IF InsertRefused(nd, par, chl, p, sibling, n) THEN Refused(par, chl)
    ELSE Done(g_node_insert_after(par, chl, p, sibling, n))

\* the children of n can be walked to their ends in at most fuel levels
RECURSIVE Walkable(_, _, _)
Walkable(chl, n, fuel) ==
    /\ fuel > 0
    /\ \A i \in 1..Len(chl[n]) : Walkable(chl, chl[n][i], fuel - 1)

\* the tree below n, for a node whose children can be walked
RECURSIVE TreeOf(_, _, _)
TreeOf(nd, chl, n) ==
    [nd[n] EXCEPT !.kids = [i \in 1..Len(chl[n]) |-> TreeOf(nd, chl, chl[n][i])]]

\* same kinds, names, payloads and child order
RECURSIVE SameTree(_, _)
SameTree(a, b) ==
    /\ a.type = b.type
    /\ a.key = b.key
    /\ Payload(a) = Payload(b)
    /\ Len(a.kids) = Len(b.kids)
    /\ \A i \in 1..Len(a.kids) : SameTree(a.kids[i], b.kids[i])

\* the nodes the builders are asked for: a Float, a List and a Compound;
\* names absent and present
BuildSamples ==
    { nbt_node_new_float(Str(<<97>>), <<63, 128, 0, 0>>),
      nbt_node_new_list(NullStr),
      nbt_node_new_compound(Str(<<97>>)) }

\* the four insertion calls
InsertOps == {"prepend", "append", "insert_before", "insert_after"}

Compressions == {"GZIP", "ZLIB", "NONE"}

\* a node that has not been released
Live(n) == n > Len(nrel) \/ nrel[n] = 0

\* the handles a caller may pass: the nodes not released
Handles == {n \in 1..Len(nodes) : Live(n)}

\* a handle, or NULL for the sibling
HandlesOrNull == Handles \cup {0}

Called(op, p, sibling, n, ret) ==
    [op |-> op, parent |-> p, sibling |-> sibling, node |-> n, ret |-> ret,
     old_parent |-> parent, old_children |-> children]

TreeInit ==
    /\ nodes = <<>>
    /\ parent = <<>>
    /\ children = <<>>
    /\ call = NoCall
    /\ tpc = "build"
    /\ packed = NoPack
    /\ unpacked = NoResult
    /\ EditIdle
    /\ CodecIdle
    /\ StrIdle
    /\ McaIdle
    /\ CursorIdle

\* the caller is between two calls (tpc = "build") or holds the value an
\* insertion call returned (tpc = "returned")

\* one of the builders: a new node without parent or children
New ==
    /\ tpc = "build"
    /\ Len(nodes) < MaxNodes
    /\ \E data \in BuildSamples : nodes' = Append(nodes, data)
    /\ parent' = Append(parent, 0)
    /\ children' = Append(children, <<>>)
    /\ UNCHANGED <<call, tpc, packed, unpacked>>
    /\ UNCHANGED <<codec_vars, str_vars, edit_vars, mca_vars, cursor_vars>>

Inserted(op, p, sibling, n, r) ==
    /\ parent' = r.links.parent
    /\ children' = r.links.children
    /\ call' = Called(op, p, sibling, n, r.ret)
    /\ tpc' = "returned"
    /\ UNCHANGED <<nodes, packed, unpacked>>
    /\ UNCHANGED <<codec_vars, str_vars, edit_vars, mca_vars, cursor_vars>>

Prepend ==
    /\ tpc = "build"
    /\ \E p \in Handles, child \in Handles :
          Inserted("prepend", p, 0, child,
                   nbt_node_prepend(nodes, parent, children, p, child))

AppendChild ==
    /\ tpc = "build"
    /\ \E p \in Handles, child \in Handles :
          Inserted("append", p, 0, child,
                   nbt_node_append(nodes, parent, children, p, child))

InsertBefore ==
    /\ tpc = "build"
    /\ \E p \in Handles, sibling \in HandlesOrNull, n \in Handles :
          Inserted("insert_before", p, sibling, n,
                   nbt_node_insert_before(nodes, parent, children, p, sibling, n))

InsertAfter ==
    /\ tpc = "build"
    /\ \E p \in Handles, sibling \in HandlesOrNull, n \in Handles :
          Inserted("insert_after", p, sibling, n,
                   nbt_node_insert_after(nodes, parent, children, p, sibling, n))

\* the caller has looked at the value returned and goes on
Return ==
    /\ tpc = "returned"
    /\ tpc' = "build"
    /\ call' = NoCall
    /\ edit' = NoEdit
    /\ UNCHANGED <<nodes, parent, children, packed, unpacked>>
    /\ UNCHANGED <<kbuf, vbuf, brel, nrel>>
    /\ UNCHANGED <<codec_vars, str_vars, mca_vars, cursor_vars>>

\* nbt_node_pack_full on one of the nodes, to memory; the walk over a node
\* that is among its own descendants does not end
Pack ==
    /\ tpc = "build"
    /\ \E n \in Handles, compression \in Compressions :
          IF Walkable(children, n, Len(nodes))
          THEN LET data == nbt_node_pack_full(TreeOf(nodes, children, n), compression)
               IN /\ packed' = [node |-> n, compression |-> compression,
                                null |-> data.null, bytes |-> data.bytes]
                  /\ tpc' = "packed"
          ELSE /\ packed' = [NoPack EXCEPT !.node = n, !.compression = compression]
               /\ tpc' = "overflow"
    /\ UNCHANGED <<nodes, parent, children, call, unpacked>>
    /\ UNCHANGED <<codec_vars, str_vars, edit_vars, mca_vars, cursor_vars>>

\* nbt_node_new_opt on the bytes returned
Unpack ==
    /\ tpc = "packed"
    /\ ~packed.null
    /\ \E stray \in StrayBytes :
          unpacked' = nbt_node_new_opt(packed.bytes, stray, DefaultCall)
    /\ tpc' = "unpacked"
    /\ UNCHANGED <<nodes, parent, children, call, packed>>
    /\ UNCHANGED <<codec_vars, str_vars, edit_vars, mca_vars, cursor_vars>>

TreeNext ==
    New \/ Prepend \/ AppendChild \/ InsertBefore \/ InsertAfter \/ Return
        \/ Pack \/ Unpack

SpecTree == TreeInit /\ [][TreeNext]_vars

(***************************************************************************)
(* Editing a decoded tree: lookup, removal, renaming, deep copy and        *)
(* release (nbt_util.c, nbt_parse.c).  The arena is taken as one record.   *)
(* A buffer is named by its address, 0 is NULL; the allocator keeps two    *)
(* addresses for each node, one for its name and one for its payload, and  *)
(* hands out again an address that was released.                           *)
(***************************************************************************)
Arena(nd, par, chl, kb, vb, br, nr) ==
    [nodes |-> nd, parent |-> par, children |-> chl, kbuf |-> kb, vbuf |-> vb,
     brel |-> br, nrel |-> nr]

Cur == Arena(nodes, parent, children, kbuf, vbuf, brel, nrel)

\* the addresses g_strdup, g_new0 and g_malloc0 hand out for the name and
\* for the payload of node n
KeyBuffer(n) == 2 * n - 1

ValueBuffer(n) == 2 * n

\* a node allocated with its data: the name in a buffer of its own unless
\* the name is NULL, the payload of a String or of a non-empty array in
\* another
AllocNode(ar, data, p, withvalue) ==
    LET n == Len(ar.nodes) + 1
        kb == IF data.key.null THEN 0 ELSE KeyBuffer(n)
        vb == IF withvalue THEN ValueBuffer(n) ELSE 0
        br2 == ar.brel \o <<0, 0>>
    IN Arena(Append(ar.nodes, [data EXCEPT !.kids = <<>>]), Append(ar.parent, p),
             Append(ar.children, <<>>), Append(ar.kbuf, kb), Append(ar.vbuf, vb),
             br2, Append(ar.nrel, 0))

\* value_a.value of a decoded or built node is a buffer for a String and
\* for an array that has elements (g_new0 of no elements returns NULL)
HasValueBuffer(data) ==
    \/ data.type = TAG_String
    \/ data.type \in {TAG_Byte_Array, TAG_Int_Array, TAG_Long_Array} /\ data.a_len > 0

\* the tree parse_value returns, laid out in the arena: each node is
\* appended to its parent as it is parsed
RECURSIVE PlantAt(_, _, _)
RECURSIVE PlantKids(_, _, _, _)

PlantAt(ar, t, p) ==
    LET n == Len(ar.nodes) + 1
        a1 == AllocNode(ar, t, p, HasValueBuffer(t))
        a2 == IF p = 0 THEN a1
              ELSE [a1 EXCEPT !.children = [a1.children EXCEPT ![p] = Append(@, n)]]
    IN PlantKids(a2, t.kids, 1, n)

PlantKids(ar, kids, i, p) ==
    IF i > Len(kids) THEN ar ELSE PlantKids(PlantAt(ar, kids[i], p), kids, i + 1, p)

NoArena == Arena(<<>>, <<>>, <<>>, <<>>, <<>>, <<>>, <<>>)

\* nbt_node_child_to_index: NULL for a NULL root or a root without
\* children; otherwise index steps along ->next from the first child, NULL
\* when the steps run off the end.  No step is taken for an index below 1.
RECURSIVE StepNext(_, _, _, _)
StepNext(sibs, pos, i, index) ==
    IF ~(i < index) THEN sibs[pos]
    ELSE IF pos + 1 > Len(sibs) THEN 0
    ELSE StepNext(sibs, pos + 1, i + 1, index)

nbt_node_child_to_index(chl, root, index) ==
    IF root = 0 \/ FirstChild(chl, root) = 0 THEN 0
    ELSE StepNext(chl[root], 1, 0, index)

\* what strcmp does with a NULL argument: the read of address 0 faults, or
\* it goes through and the strings compare as different
StrcmpNull == {"crash", "differ"}

\* g_str_equal (v1, v2) is strcmp (v1, v2) == 0
g_str_equal(v1, v2, ub) ==
    IF v1.null \/ v2.null
    THEN [crash |-> ub = "crash", equal |-> FALSE]
    ELSE [crash |-> FALSE, equal |-> CStr(v1.s) = CStr(v2.s)]

Found(n) == [node |-> n, crash |-> FALSE]

Crashed == [node |-> 0, crash |-> TRUE]

\* nbt_node_child_to_key: the children in order, each name compared with
\* key by g_str_equal
RECURSIVE ScanKeys(_, _, _, _, _)
ScanKeys(nd, sibs, pos, key, ub) ==
    IF pos > Len(sibs) THEN Found(0)
    ELSE LET eq == g_str_equal(nd[sibs[pos]].key, key, ub)
         IN IF eq.crash THEN Crashed
            ELSE IF eq.equal THEN Found(sibs[pos])
            ELSE ScanKeys(nd, sibs, pos + 1, key, ub)

nbt_node_child_to_key(nd, chl, root, key, ub) ==
    IF root = 0 \/ FirstChild(chl, root) = 0 THEN Found(0)
    ELSE ScanKeys(nd, chl[root], 1, key, ub)

Without(seq, e) == SelectSeq(seq, LAMBDA c : c # e)

\* GLib's g_node_unlink: the node leaves its parent's children and becomes
\* a root
g_node_unlink(par, chl, n) ==
    IF par[n] = 0 THEN Links(par, chl)
    ELSE Links([par EXCEPT ![n] = 0], [chl EXCEPT ![par[n]] = Without(@, n)])

\* node->next and the siblings after it
NextSiblings(par, chl, n) ==
    IF par[n] = 0 \/ \A i \in 1..Len(chl[par[n]]) : chl[par[n]][i] # n THEN <<>>
    ELSE SubSeq(chl[par[n]], IndexOf(chl[par[n]], n) + 1, Len(chl[par[n]]))

\* the nodes nbt_node_free releases, in order: for the node and then each
\* node reached through ->next, first what nbt_node_free releases from
\* its first child, then the node itself
RECURSIVE FreeOrder(_, _, _)
FreeOrder(chl, sibs, i) ==
    IF i > Len(sibs) THEN <<>>
    ELSE FreeOrder(chl, chl[sibs[i]], 1) \o <<sibs[i]>> \o FreeOrder(chl, sibs, i + 1)

Count(seq, e) == Cardinality({i \in 1..Len(seq) : seq[i] = e})

\* nbt_data_free for each released node: the name if not NULL, the
\* payload buffer of a String or an array if not NULL, the data
Released(ar, order) ==
    LET bufs == Flatten([i \in 1..Len(order) |->
                    (IF ar.kbuf[order[i]] # 0 THEN <<ar.kbuf[order[i]]>> ELSE <<>>)
                    \o (IF ar.vbuf[order[i]] # 0 THEN <<ar.vbuf[order[i]]>> ELSE <<>>)])
    IN [ar EXCEPT !.nrel = [n \in 1..Len(ar.nrel) |-> ar.nrel[n] + Count(order, n)],
                  !.brel = [b \in 1..Len(ar.brel) |-> ar.brel[b] + Count(bufs, b)]]

\* the recursion of nbt_node_free and of g_node_copy_deep ends
Finite(ar, ns) == \A i \in 1..Len(ns) : Walkable(ar.children, ns[i], Len(ar.nodes))

Outcome(ar, ret, crash) == [arena |-> ar, ret |-> ret, crash |-> crash]

nbt_node_free(ar, n) ==
    LET walk == <<n>> \o NextSiblings(ar.parent, ar.children, n)
    IN IF n = 0 THEN Outcome(ar, 0, FALSE)
       ELSE IF ~Finite(ar, walk) THEN Outcome(ar, 0, TRUE)
       ELSE Outcome(Released(ar, FreeOrder(ar.children, walk, 1)), 0, FALSE)

Unlinked(ar, n) ==
    LET l == g_node_unlink(ar.parent, ar.children, n)
    IN [ar EXCEPT !.parent = l.parent, !.children = l.children]

nbt_node_remove_node_index(ar, root, index) ==
    LET node == nbt_node_child_to_index(ar.children, root, index)
    IN IF root = 0 \/ node = 0 THEN Outcome(ar, FALSE, FALSE)
       ELSE LET f == nbt_node_free(Unlinked(ar, node), node)
            IN Outcome(f.arena, TRUE, f.crash)

nbt_node_remove_node_key(ar, root, key, ub) ==
    LET look == nbt_node_child_to_key(ar.nodes, ar.children, root, key, ub)
    IN IF root = 0 THEN Outcome(ar, FALSE, FALSE)
       ELSE IF look.crash THEN Outcome(ar, FALSE, TRUE)
       ELSE IF look.node = 0 THEN Outcome(ar, FALSE, FALSE)
       ELSE LET f == nbt_node_free(Unlinked(ar, look.node), look.node)
            IN Outcome(f.arena, TRUE, f.crash)

\* nbt_node_reset_key: nothing for a child of a List; otherwise the old
\* name is released and the node gets a copy of key
nbt_node_reset_key(ar, node, key) ==
    IF node = 0 THEN ar
    ELSE IF ar.parent[node] # 0 /\ ar.nodes[ar.parent[node]].type = TAG_List THEN ar
    ELSE LET br1 == IF ar.kbuf[node] = 0 THEN ar.brel
                    ELSE [ar.brel EXCEPT ![ar.kbuf[node]] = @ + 1]
             kb == IF key.null THEN 0 ELSE KeyBuffer(node)
         IN [ar EXCEPT !.nodes = [@ EXCEPT ![node] = [@ EXCEPT !.key = g_strdup(key)]],
                       !.kbuf = [@ EXCEPT ![node] = kb],
                       !.brel = IF kb = 0 THEN br1 ELSE [br1 EXCEPT ![kb] = 0]]

\* a copy that keeps the source's payload pointer
copy_func_value_aliased(src_value) == FALSE

\* copy_func gives the copy's payload a buffer of its own, filled from the
\* source's (g_strdup, g_malloc0 and memcpy); NULL stays NULL
copy_func_value(src_value) == src_value # 0

\* copy_func: new data with a copy of the name, the kind, and the payload
\* of the kind.  The arena holds nodes of the twelve kinds only.
copy_func(ar, src) ==
    LET s == ar.nodes[src]
        new_data == [create_nbt(s.type) EXCEPT
                        !.key = g_strdup(s.key),
                        !.value_i = IF s.type \in {TAG_Byte, TAG_Short, TAG_Int, TAG_Long}
                                    THEN s.value_i ELSE @,
                        !.value_d = IF s.type \in {TAG_Float, TAG_Double}
                                    THEN s.value_d ELSE @,
                        !.value_a = IF s.type = TAG_String THEN CStr(s.value_a)
                                    ELSE IF s.type \in {TAG_Byte_Array, TAG_Int_Array,
                                                        TAG_Long_Array}
                                    THEN s.value_a ELSE @,
                        !.a_len = IF s.type \in {TAG_String, TAG_Byte_Array,
                                                 TAG_Int_Array, TAG_Long_Array}
                                  THEN s.a_len ELSE @]
        a1 == AllocNode(ar, new_data, 0, copy_func_value(ar.vbuf[src]))
    IN IF copy_func_value(ar.vbuf[src]) \/ ar.vbuf[src] = 0 THEN a1
       ELSE [a1 EXCEPT !.vbuf = [@ EXCEPT ![Len(a1.nodes)] = ar.vbuf[src]]]

\* GLib's g_node_copy_deep: a new node for the copied data, then for each
\* child from the last to the first the copy of the child, prepended
RECURSIVE g_node_copy_deep(_, _)
RECURSIVE CopyChildren(_, _, _, _)

g_node_copy_deep(ar, node) ==
    LET a1 == copy_func(ar, node)
    IN CopyChildren(a1, ar.children[node], Len(ar.children[node]), Len(a1.nodes))

CopyChildren(ar, kids, i, new_node) ==
    IF i = 0 THEN ar
    ELSE LET new_child == Len(ar.nodes) + 1
             a2 == g_node_copy_deep(ar, kids[i])
             l == g_node_prepend(a2.parent, a2.children, new_node, new_child)
         IN CopyChildren([a2 EXCEPT !.parent = l.parent, !.children = l.children],
                         kids, i - 1, new_node)

\* nbt_node_dup: the handle of the copy, which is the first node allocated
nbt_node_dup(ar, root) ==
    IF root = 0 THEN Outcome(ar, 0, FALSE)
    ELSE IF ~Finite(ar, <<root>>) THEN Outcome(ar, 0, TRUE)
    ELSE Outcome(g_node_copy_deep(ar, root), Len(ar.nodes) + 1, FALSE)

(***************************************************************************)
(* The editing specification: a document is decoded, then the caller       *)
(* inserts, removes, renames, copies, looks up and releases nodes through  *)
(* the handles it holds.                                                   *)
(***************************************************************************)
\* the decoded documents: Lists of two elements and of a List, Compounds
\* whose first child has no name, whose children share a name, and that
\* hold a String and an array
EditDocs ==
    { WList(TAG_Byte, <<0, 0, 0, 2>>, <<WLeaf(TAG_Byte, <<42>>), WLeaf(TAG_Byte, <<255>>)>>),
      WList(TAG_List, <<0, 0, 0, 1>>,
            <<WList(TAG_Byte, <<0, 0, 0, 1>>, <<WLeaf(TAG_Byte, <<42>>)>>)>>),
      WCompound(<<Named(WLeaf(TAG_Float, <<63, 128, 0, 0>>), <<>>),
                  Named(WLeaf(TAG_Byte, <<42>>), <<97>>)>>),
      WCompound(<<Named(WLeaf(TAG_Byte, <<42>>), <<97>>),
                  Named(WLeaf(TAG_String, <<0, 1, 65>>), <<97>>)>>),
      Named(WCompound(<<Named(WLeaf(TAG_Byte_Array, <<0, 0, 0, 2, 1, 255>>), <<98>>)>>),
            <<97>>) }

\* the names passed to lookup and removal
EditKeys == {NullStr, Str(<<97>>), Str(<<98>>)}

\* the name passed to renaming
RenameKeys == {Str(<<98>>)}

\* the indexes passed to removal: below, inside and past the children
Indexes == (0 - 1)..MaxKids

Edit(op, root, index, key, found, ret, crash) ==
    [op |-> op, root |-> root, index |-> index, key |-> key, found |-> found,
     ret |-> ret, crash |-> crash, old |-> Cur]

EditInit ==
    /\ \E d \in EditDocs :
       \E r \in {nbt_node_new_opt(WireTag(d), 0, DefaultCall)} :
       \E ar \in {PlantAt(NoArena, r.root, 0)} :
             /\ r.tree
             /\ nodes = ar.nodes
             /\ parent = ar.parent
             /\ children = ar.children
             /\ kbuf = ar.kbuf
             /\ vbuf = ar.vbuf
             /\ brel = ar.brel
             /\ nrel = ar.nrel
    /\ edit = NoEdit
    /\ call = NoCall
    /\ tpc = "build"
    /\ packed = NoPack
    /\ unpacked = NoResult
    /\ CodecIdle
    /\ StrIdle
    /\ McaIdle
    /\ CursorIdle

\* the state after an editing call: the arena it leaves, the record of the
\* call, and where the caller stands
Edited(e, ar, at) ==
    /\ nodes' = ar.nodes
    /\ parent' = ar.parent
    /\ children' = ar.children
    /\ kbuf' = ar.kbuf
    /\ vbuf' = ar.vbuf
    /\ brel' = ar.brel
    /\ nrel' = ar.nrel
    /\ edit' = e
    /\ tpc' = at
    /\ UNCHANGED <<call, packed, unpacked>>
    /\ UNCHANGED <<codec_vars, str_vars, mca_vars, cursor_vars>>

After(crash) == IF crash THEN "crashed" ELSE "returned"

RemoveIndex ==
    /\ tpc = "build"
    /\ \E root \in Handles, index \in Indexes :
          LET r == nbt_node_remove_node_index(Cur, root, index)
          IN Edited(Edit("remove_index", root, index, NullStr,
                         nbt_node_child_to_index(children, root, index), r.ret, r.crash),
                    r.arena, After(r.crash))

RemoveKey ==
    /\ tpc = "build"
    /\ \E root \in Handles, key \in EditKeys, ub \in StrcmpNull :
          LET r == nbt_node_remove_node_key(Cur, root, key, ub)
          IN Edited(Edit("remove_key", root, 0, key,
                         nbt_node_child_to_key(nodes, children, root, key, ub).node,
                         r.ret, r.crash),
                    r.arena, After(r.crash))

ChildToKey ==
    /\ tpc = "build"
    /\ \E root \in Handles, key \in EditKeys, ub \in StrcmpNull :
          LET r == nbt_node_child_to_key(nodes, children, root, key, ub)
          IN Edited(Edit("child_to_key", root, 0, key, r.node, r.node, r.crash),
                    Cur, After(r.crash))

Rename ==
    /\ tpc = "build"
    /\ \E node \in Handles, key \in RenameKeys :
          Edited(Edit("reset_key", node, 0, key, 0, 0, FALSE),
                 nbt_node_reset_key(Cur, node, key), "returned")

Dup ==
    /\ tpc = "build"
    /\ \E root \in Handles :
          LET r == nbt_node_dup(Cur, root)
          IN /\ Len(r.arena.nodes) <= MaxCells
             /\ Edited(Edit("dup", root, 0, NullStr, 0, r.ret, r.crash),
                       r.arena, After(r.crash))

\* after the release of a node that is still linked below a parent the
\* caller holds a tree with links to released nodes, and makes no call
Free ==
    /\ tpc = "build"
    /\ \E node \in Handles :
          LET r == nbt_node_free(Cur, node)
          IN Edited(Edit("free", node, 0, NullStr, 0, 0, r.crash), r.arena,
                    IF r.crash THEN "crashed"
                    ELSE IF parent[node] # 0 THEN "dangling" ELSE "returned")

EditNext ==
    Prepend \/ AppendChild \/ InsertBefore \/ InsertAfter \/ RemoveIndex \/ RemoveKey
        \/ ChildToKey \/ Rename \/ Dup \/ Free \/ Return

SpecEdit == EditInit /\ [][EditNext]_vars

\* the nodes of the subtree of n, for a node whose children can be walked
RECURSIVE Below(_, _)
Below(chl, n) == {n} \cup UNION {Below(chl, chl[n][i]) : i \in 1..Len(chl[n])}

\* the buffers of a set of nodes
BuffersOf(ar, ns) ==
    ({ar.kbuf[n] : n \in ns} \cup {ar.vbuf[n] : n \in ns}) \ {0}

\* the first child of root, in child order, whose name is key; 0 for none
FirstNamed(ar, root, key) ==
    LET kids == ar.children[root]
        hits == {i \in 1..Len(kids) :
                    ~ar.nodes[kids[i]].key.null /\ ar.nodes[kids[i]].key.s = key.s}
    IN IF hits = {} THEN 0 ELSE kids[CHOOSE i \in hits : \A j \in hits : i <= j]

\* the child of root at position index counted from 0; 0 for none
ChildAt(ar, root, index) ==
    IF 0 <= index /\ index < Len(ar.children[root])
    THEN ar.children[root][index + 1] ELSE 0

\* the arena after the subtree of target has been detached from root and
\* released, each node and buffer once, and nothing else has changed
RemovedExactly(old, root, target) ==
    LET gone == Below(old.children, target)
    IN /\ nodes = old.nodes
       /\ kbuf = old.kbuf
       /\ vbuf = old.vbuf
       /\ parent = [old.parent EXCEPT ![target] = 0]
       /\ children = [old.children EXCEPT ![root] = Without(@, target)]
       /\ nrel = [n \in 1..Len(old.nrel) |->
                     IF n \in gone THEN old.nrel[n] + 1 ELSE old.nrel[n]]
       /\ brel = [b \in 1..Len(old.brel) |->
                     IF b \in BuffersOf(old, gone) THEN old.brel[b] + 1 ELSE old.brel[b]]

\* the nodes linked with the nodes of seeds, upwards or downwards, in any
\* number of steps
RECURSIVE Connected(_, _, _, _)
Connected(par, chl, seeds, fuel) ==
    LET more == seeds \cup ({par[n] : n \in seeds} \ {0})
                      \cup UNION {{chl[n][i] : i \in 1..Len(chl[n])} : n \in seeds}
    IN IF fuel = 0 \/ more = seeds THEN seeds ELSE Connected(par, chl, more, fuel - 1)

\* the copy nbt_node_dup returned is a detached tree of new nodes and new
\* buffers with the kinds, names, payloads and child order of root's
\* subtree, and the nodes there were before are as they were
DupFaithful(old, root, copy) ==
    LET was == 1..Len(old.nodes)
        made == Below(children, copy)
    IN /\ copy # 0
       /\ parent[copy] = 0
       /\ Walkable(children, copy, Len(nodes))
       /\ SameTree(TreeOf(nodes, children, copy), TreeOf(old.nodes, old.children, root))
       /\ made \cap was = {}
       /\ BuffersOf(Cur, made) \cap BuffersOf(Cur, was) = {}
       /\ \A n \in was : /\ nodes[n] = old.nodes[n]
                         /\ parent[n] = old.parent[n]
                         /\ children[n] = old.children[n]
                         /\ kbuf[n] = old.kbuf[n]
                         /\ vbuf[n] = old.vbuf[n]
                         /\ nrel[n] = old.nrel[n]
       /\ \A b \in 1..Len(old.brel) : brel[b] = old.brel[b]

\* no buffer belongs to two nodes
NoSharedStorage ==
    \A m, n \in 1..Len(nodes) :
        /\ m # n => BuffersOf(Cur, {m}) \cap BuffersOf(Cur, {n}) = {}
        /\ kbuf[n] # 0 => kbuf[n] # vbuf[n]

\* the last editing call left alone every node that is not linked with the
\* node it was given
EditStaysInTree ==
    edit.op # "none"
    => LET old == edit.old
           touched == Connected(old.parent, old.children, {edit.root}, Len(old.nodes))
       IN \A n \in (1..Len(old.nodes)) \ touched :
              /\ nodes[n] = old.nodes[n]
              /\ parent[n] = old.parent[n]
              /\ children[n] = old.children[n]
              /\ kbuf[n] = old.kbuf[n]
              /\ vbuf[n] = old.vbuf[n]
              /\ nrel[n] = old.nrel[n]
              /\ \A b \in BuffersOf(old, {n}) : brel[b] = old.brel[b]

\* the last insertion left alone the links of every node that is not linked
\* with the nodes it was given
InsertStaysInTree ==
    call.op # "none"
    => LET touched == Connected(call.old_parent, call.old_children,
                                {call.parent, call.sibling, call.node} \ {0},
                                Len(call.old_parent))
       IN \A n \in (1..Len(call.old_parent)) \ touched :
              parent[n] = call.old_parent[n] /\ children[n] = call.old_children[n]

(***************************************************************************)
(* The decoder called with and without an error out-parameter, with a      *)
(* cancellation handle that is set at some poll, on plain and compressed   *)
(* input, sound or corrupt.                                                *)
(***************************************************************************)
OptDocs ==
    { Named(WLeaf(TAG_Byte, <<42>>), <<97>>),
      WList(TAG_Byte, <<0, 0, 0, 2>>, <<WLeaf(TAG_Byte, <<42>>), WLeaf(TAG_Byte, <<255>>)>>),
      WCompound(<<Named(WCompound(<<Named(WLeaf(TAG_Byte, <<42>>), <<97>>)>>), <<97>>)>>),
      WCompound(<<Named(WLeaf(TAG_String, <<0, 1, 65>>), <<97>>),
                  Named(WLeaf(TAG_Float, <<63, 128, 0, 0>>), <<98>>)>>) }

Calls ==
    { Call(err, polls, chunks, nospace) :
          err \in BOOLEAN, polls \in (0..MaxPolls) \cup {NeverCancelled},
          chunks \in 1..MaxChunks, nospace \in 0..MaxNoSpace }

\* a stream whose deflate data the decompressor rejects
Corrupt(z) == [i \in 1..Len(z) |-> IF i = Len(z) THEN 300 - z[i] ELSE z[i]]

OptInit ==
    /\ doc \in OptDocs
    /\ framing \in {"plain", "GZIP", "ZLIB"}
    /\ \/ dmg = "none" /\ input = Framed(framing, WireTag(doc))
       \/ /\ dmg = "corrupt"
          /\ framing # "plain"
          /\ input = Corrupt(Framed(framing, WireTag(doc)))
    /\ opt \in Calls
    /\ pc = "input"
    /\ res = NoResult
    /\ out = NoOutput
    /\ StrIdle
    /\ TreeIdle
    /\ McaIdle
    /\ CursorIdle

SpecOpt == OptInit /\ [][CodecNext]_vars

\* a poll of the handle found it set: in the decompression loop, after it,
\* or on entry to parse_value
CancelSeen(data, stray, o) ==
    LET format == DetectFormat(data, stray)
        loop   == DecompressLoop(format, data, o)
        buffer == IF format = "NONE" THEN init_buffer_dup(data)
                  ELSE [null |-> FALSE, data |-> Decompress(format, data).bytes]
        polls  == IF format = "NONE" THEN o.polls ELSE Spend(loop.polls, 1)
        parsed == parse_value(create_nbt(TAG_End), buffer, FALSE, polls)
    IN IF format = "NONE" THEN parsed.err = "CANCELLED"
       ELSE \/ loop.seen
            \/ /\ ~loop.hang /\ ~loop.set /\ loop.result # "ERROR"
               /\ (loop.polls = 0 \/ parsed.err = "CANCELLED")

\* the decompressor has reported an error other than no space
ConverterFailed(data, stray, o) ==
    /\ DetectFormat(data, stray) # "NONE"
    /\ ~Decompress(DetectFormat(data, stray), data).ok
    /\ o.polls >= o.nospace + o.chunks

(***************************************************************************)
(* The region specification: an MCA is initialised and its slots filled    *)
(* by the caller, written to a new file, and the file read back.           *)
(***************************************************************************)
McaInit ==
    /\ \E fills \in [SlotSet -> SlotFills], epoch \in Epochs :
          mca = Mca(fills, [j \in SlotSet |-> Len(fills[j].bytes)],
                    [j \in SlotSet |-> epoch])
    /\ file = <<>>
    /\ rd = NoRead
    /\ mpc = "filled"
    /\ CodecIdle
    /\ StrIdle
    /\ TreeIdle
    /\ CursorIdle

WriteRaw ==
    /\ mpc = "filled"
    /\ \E now \in Clocks : file' = MCA_WriteRaw_File(mca, now).file
    /\ mpc' = "written"
    /\ UNCHANGED <<mca, rd>>
    /\ UNCHANGED <<codec_vars, str_vars, tree_vars, cursor_vars>>

ReadRaw ==
    /\ mpc = "written"
    /\ \E skip \in BOOLEAN, malloc0 \in Malloc0 :
          rd' = Read("MCA_ReadRaw", skip, MCA_ReadRaw(file, MCA_Init, skip, malloc0))
    /\ mpc' = "read"
    /\ UNCHANGED <<mca, file>>
    /\ UNCHANGED <<codec_vars, str_vars, tree_vars, cursor_vars>>

ReadRawFile ==
    /\ mpc = "written"
    /\ \E skip \in BOOLEAN, malloc0 \in Malloc0 :
          rd' = Read("MCA_ReadRaw_File", skip,
                     MCA_ReadRaw_File(file, MCA_Init, skip, malloc0))
    /\ mpc' = "read"
    /\ UNCHANGED <<mca, file>>
    /\ UNCHANGED <<codec_vars, str_vars, tree_vars, cursor_vars>>

McaNext == WriteRaw \/ ReadRaw \/ ReadRawFile

SpecMca == McaInit /\ [][McaNext]_vars

(***************************************************************************)
(* The region reading specification: the readers applied to region bytes   *)
(* that no writer need have produced.  The bytes are the two header        *)
(* sectors and a body that starts in sector 2.                             *)
(***************************************************************************)
\* offset table entries: sector 2 with one sector, sector 2 with none,
\* sector 3 with one sector, absent
RegionEntries == {<<0, 0, 2, 1>>, <<0, 0, 2, 0>>, <<0, 0, 3, 1>>, Zeros(4)}

\* the length field of the chunk in sector 2: 0, the type byte alone, some
\* bytes of the sector, more than the sector and the next, 2^31 and 2^32 - 1
RegionLengths ==
    { Zeros(4), <<0, 0, 0, 1>>, <<0, 0, 0, 3>>, ToDigits(SECTOR - 4, 4),
      ToDigits(3 * SECTOR, 4), <<128, 0, 0, 0>>, <<255, 255, 255, 255>> }

\* the bytes from sector 2 on: a chunk with length l and type t in sector
\* 2, a chunk of one byte in sector 3, cut after n bytes
RegionBody(l, t, n) ==
    SubSeq(l \o <<t>> \o [k \in 1..(SECTOR - 5) |-> 16 * k + 1]
             \o <<0, 0, 0, 2, 2, 99>> \o Zeros(SECTOR - 6),
           1, n)

RegionBytes ==
    { Flatten([j \in SlotSet |-> IF j = 1 THEN e1 ELSE IF j = 2 THEN e2 ELSE Zeros(4)])
      \o Flatten([j \in SlotSet |-> <<0, 0, 0, 5>>])
      \o RegionBody(l, t, n) :
          e1 \in RegionEntries, e2 \in {Zeros(4), <<0, 0, 3, 1>>}, l \in RegionLengths,
          t \in {2, 1}, n \in {1, 4, 5, SECTOR, 2 * SECTOR} }

RegionInit ==
    /\ mca = MCA_Init
    /\ file \in RegionBytes
    /\ rd = NoRead
    /\ mpc = "written"
    /\ CodecIdle
    /\ StrIdle
    /\ TreeIdle
    /\ CursorIdle

RegionNext == ReadRaw \/ ReadRawFile

SpecRegion == RegionInit /\ [][RegionNext]_vars

(***************************************************************************)
(* The array specification: nbt_node_new_opt applied to one array tag      *)
(* whose declared length and whose bytes present vary independently.       *)
(***************************************************************************)
\* declared lengths: small ones, the least ones whose product with 4 or 8
\* passes 2^32, and the greatest
ArrayLengths ==
    { <<0, 0, 0, 0>>, <<0, 0, 0, 1>>, <<0, 0, 0, 2>>, <<0, 0, 0, 3>>,
      <<32, 0, 0, 0>>, <<32, 0, 0, 1>>, <<64, 0, 0, 0>>, <<64, 0, 0, 1>>,
      <<127, 255, 255, 255>>, <<128, 0, 0, 0>>, <<255, 255, 255, 255>> }

ArrayTags == {TAG_Byte_Array, TAG_Int_Array, TAG_Long_Array}

ArrayDocs ==
    { WLeaf(tag, len \o [k \in 1..n |-> 16 * k + 1]) :
          tag \in ArrayTags, len \in ArrayLengths, n \in 0..MaxArrayBytes }

ArrayInit ==
    /\ doc \in ArrayDocs
    /\ dmg = "none"
    /\ framing = "plain"
    /\ input = WireTag(doc)
    /\ opt = DefaultCall
    /\ pc = "input"
    /\ res = NoResult
    /\ out = NoOutput
    /\ StrIdle
    /\ TreeIdle
    /\ McaIdle
    /\ CursorIdle

ArrayNext == Decode

SpecArray == ArrayInit /\ [][ArrayNext]_vars

(***************************************************************************)
(* Claims.                                                                 *)
(***************************************************************************)
\* C1: a well-formed uncompressed document, decoded and written back as
\* uncompressed wire bytes, comes back byte for byte.
C1_RoundTripBytes ==
    (dmg = "none" /\ framing = "plain" /\ WellFormed(doc))
    => /\ pc # "input" => res.tree
       /\ pc = "encoded" => (out.ret = 0 /\ out.bytes = input)

\* C2: a tree built with the builders and the insertion calls, packed in
\* any compression mode and decoded again, comes back structurally equal:
\* same kinds, names, payloads and child order.
C2_PackRoundTrip ==
    /\ tpc = "packed" => ~packed.null
    /\ tpc = "unpacked"
       => /\ unpacked.tree
          /\ SameTree(TreeOf(nodes, children, packed.node), unpacked.root)

\* C3: a valid UTF-8 string without U+0000, converted to Modified UTF-8 and
\* back, is unchanged.
C3_Mutf8RoundTrip ==
    (str_kind = "utf8" /\ str_pc = "done")
    => (~str_out.null /\ str_out.s = str_in)

\* C4: every proper prefix of a well-formed uncompressed document, the
\* empty one included, is refused with INTERRUPTED and yields no tree.
C4_PrefixInterrupted ==
    (dmg = "prefix" /\ pc # "input")
    => (~res.tree /\ res.err = "INTERRUPTED")

\* C5: when the top-level tag parses, the tree is returned; the error is
\* LEFTOVER_DATA when the cursor is short of the length and unset when it
\* equals the length; trailing bytes do not change the tree returned.
C5_LeftoverWithTree ==
    (pc # "input" /\ res.ret = 0)
    => /\ res.tree
       /\ res.pos < res.len => res.err = "LEFTOVER_DATA"
       /\ res.pos = res.len => res.err = "NONE"
       /\ dmg = "trail" =>
             /\ res.err = "LEFTOVER_DATA"
             /\ res.root = nbt_node_new_opt(WireTag(doc), 0, DefaultCall).root

C5_Witness ==
    /\ pc = "decoded"
    /\ dmg = "trail"
    /\ res.tree
    /\ res.err = "LEFTOVER_DATA"
    /\ res.root.kids # <<>>

\* C6: a List of element kind End with a non-zero count fails the decode
\* with INVALID_TAG and no tree, at any depth; with count 0 it decodes to an
\* empty list.
C6_BadList ==
    (pc # "input" /\ dmg = "none")
    => /\ TagAnomaly(doc) = "badlist" => (~res.tree /\ res.err = "INVALID_TAG")
       /\ WellFormed(doc) => (res.tree /\ Shape(res.root) = WShape(doc))

C6_Witness ==
    /\ pc = "decoded"
    /\ dmg = "none"
    /\ TagAnomaly(doc) = "badlist"
    /\ doc.body = "list" /\ doc.ek = TAG_Compound
    /\ ~res.tree
    /\ res.err = "INVALID_TAG"

\* C7: a byte outside 1..12 where a tag kind is expected (the root's tag, a
\* Compound child's tag, the element kind of a non-empty List) fails the
\* decode with INVALID_TAG and no tree.
C7_BadTagInvalid ==
    (pc # "input" /\ dmg = "none" /\ TagAnomaly(doc) = "badtag")
    => (~res.tree /\ res.err = "INVALID_TAG")

\* C8: convert_string returns failure for every input that has a byte of
\* F0..FF in leading position (here: first, or preceded by ASCII only).
C8_RejectsF0 ==
    (/\ str_kind = "raw"
     /\ str_pc = "done"
     /\ \E i \in 1..Len(str_in) :
           str_in[i] >= 240 /\ \A j \in 1..(i - 1) : str_in[j] < 128)
    => str_out.null

\* C9: an insertion call returns FALSE and leaves every link as it was when
\* the parent is neither Compound nor List, and when the parent is a List
\* with children whose kind differs from the new child's.
C9_WrongKindRefused ==
    (/\ call.op \in InsertOps
     /\ \/ ~IsContainer(nodes[call.parent])
        \/ /\ nodes[call.parent].type = TAG_List
           /\ call.old_children[call.parent] # <<>>
           /\ nodes[call.old_children[call.parent][1]].type # nodes[call.node].type)
    => /\ ~call.ret
       /\ parent = call.old_parent
       /\ children = call.old_children

C9_Witness ==
    /\ call.op = "insert_after"
    /\ nodes[call.parent].type = TAG_List
    /\ call.old_children[call.parent] # <<>>
    /\ call.sibling = call.old_children[call.parent][1]
    /\ nodes[call.sibling].type # nodes[call.node].type
    /\ call.old_parent[call.node] = 0
    /\ ~call.ret
    /\ children = call.old_children

\* C10: an insertion call whose node already has a parent returns FALSE and
\* changes no link; a call that returns TRUE has made the node a child of
\* the given parent; no node is listed under more than one parent.
C10_ParentedRefused ==
    /\ call.op \in InsertOps
       => /\ call.old_parent[call.node] # 0
             => /\ ~call.ret
                /\ parent = call.old_parent
                /\ children = call.old_children
          /\ call.ret
             => /\ parent[call.node] = call.parent
                /\ \E i \in 1..Len(children[call.parent]) :
                      children[call.parent][i] = call.node
    /\ \A n \in Handles :
          Cardinality({<<p, i>> \in Handles \X (1..MaxNodes) :
                          i <= Len(children[p]) /\ children[p][i] = n}) <= 1

\* C11: after a document is decoded, whatever appends, prepends, inserts
\* before or after, removals by index or by name, renamings and deep
\* copies are applied, the children of every List are all of one kind.
C11_ListsHomogeneous ==
    \A p \in 1..Len(nodes) :
        (Live(p) /\ nodes[p].type = TAG_List)
            => \A i, j \in 1..Len(children[p]) :
                   nodes[children[p][i]].type = nodes[children[p][j]].type

\* a copied node has been inserted into a List that had a child already
C11_Witness ==
    /\ call.op \in InsertOps
    /\ call.ret
    /\ call.node > Len(call.old_parent) - 1
    /\ nodes[call.parent].type = TAG_List
    /\ call.old_children[call.parent] # <<>>
    /\ Len(children[call.parent]) = Len(call.old_children[call.parent]) + 1
    /\ Len(nodes) = MaxCells

\* C12: nbt_node_remove_node_index with an index from 0 to below the child
\* count, and nbt_node_remove_node_key with a name some child has, detach
\* that one child and release its subtree and nothing else, the other
\* children keeping their order; when there is no such child the call
\* returns FALSE and leaves the tree as it was.
C12_RemoveExact ==
    (edit.op \in {"remove_index", "remove_key"}
        /\ (edit.op = "remove_key" => ~edit.key.null))
    => LET target == IF edit.op = "remove_index"
                     THEN ChildAt(edit.old, edit.root, edit.index)
                     ELSE FirstNamed(edit.old, edit.root, edit.key)
       IN IF target = 0
          THEN ~edit.crash /\ edit.ret = FALSE /\ Cur = edit.old
          ELSE Finite(edit.old, <<target>>)
                   => /\ ~edit.crash
                      /\ edit.ret = TRUE
                      /\ RemovedExactly(edit.old, edit.root, target)

\* C13: nbt_node_dup returns a detached tree with the kinds, names,
\* payloads and child order of root's subtree, and nothing of root's
\* siblings or parent; the copy shares no node and no buffer with the
\* original, so that no later call on the one changes or releases
\* anything of the other.
C13_DupIndependent ==
    /\ (edit.op = "dup" /\ Finite(edit.old, <<edit.root>>))
           => ~edit.crash /\ DupFaithful(edit.old, edit.root, edit.ret)
    /\ NoSharedStorage
    /\ EditStaysInTree
    /\ InsertStaysInTree

\* a Compound holding an array has been copied
C13_Witness ==
    /\ edit.op = "dup"
    /\ edit.ret # 0
    /\ children[edit.ret] # <<>>
    /\ \E n \in Below(children, edit.ret) : vbuf[n] # 0
    /\ edit.old.nodes[edit.root].type = TAG_Compound

\* C14: nbt_node_child_to_key returns the first child, in child order,
\* whose name is byte for byte the key, and none when no child has that
\* name, whatever the parent: a List, or a Compound with children that
\* have no name.
C14_FirstNamedChild ==
    (edit.op = "child_to_key" /\ ~edit.key.null)
    => ~edit.crash /\ edit.found = FirstNamed(edit.old, edit.root, edit.key)

\* C15: nbt_node_free releases the nodes of the subtree of the node it is
\* given, with their names and payloads, each once, and no node outside
\* that subtree, wherever the node stands among its siblings.
C15_FreeExact ==
    (edit.op = "free" /\ Finite(edit.old, <<edit.root>>))
    => LET old == edit.old
           gone == Below(old.children, edit.root)
       IN /\ ~edit.crash
          /\ nrel = [n \in 1..Len(old.nrel) |->
                        IF n \in gone THEN old.nrel[n] + 1 ELSE old.nrel[n]]
          /\ brel = [b \in 1..Len(old.brel) |->
                        IF b \in BuffersOf(old, gone) THEN old.brel[b] + 1
                        ELSE old.brel[b]]

\* C16: when a poll of the cancellation handle finds it set, before or
\* during the decode, nbt_node_new_opt returns no tree and reports
\* NBT_GLIB_PARSE_ERROR_CANCELLED, for plain, GZIP and ZLIB input alike,
\* also when the handle is set on entry.
C16_CancelledReported ==
    (pc \in {"decoded", "encoded"} /\ opt.err /\ CancelSeen(input, 0, opt))
    => ~res.tree /\ res.err = "CANCELLED"

\* C17: when the decompressor reports an error other than no space on GZIP
\* or ZLIB input, nbt_node_new_opt stops, returns no tree and reports a
\* decompression error.
C17_DecompressError ==
    (pc # "input" /\ ConverterFailed(input, 0, opt))
    => /\ pc # "decompressing"
       /\ ~res.tree
       /\ opt.err => res.err = "G_IO_ERROR"

\* slot j as read back is slot j as the caller filled it: empty stays
\* empty, a buffer comes back with its size and its bytes (a buffer of no
\* bytes may come back as either)
SlotReproduced(j) ==
    IF mca.rawdata[j].null THEN rd.mca.rawdata[j].null
    ELSE IF mca.size[j] = 0
    THEN rd.mca.size[j] = 0 /\ rd.mca.rawdata[j].bytes = <<>> /\ ~rd.mca.rawdata[j].freed
    ELSE rd.mca.size[j] = mca.size[j] /\ rd.mca.rawdata[j] = mca.rawdata[j]

\* C18: an MCA written with MCA_WriteRaw_File and read back with
\* MCA_ReadRaw or MCA_ReadRaw_File is read successfully, every slot comes
\* back as it was, and every slot has the epoch timestamp it had
C18_McaRoundTrip ==
    mpc = "read" =>
        /\ rd.ret = 0
        /\ \A j \in SlotSet : SlotReproduced(j)
        /\ \A j \in SlotSet : rd.mca.epoch[j] = mca.epoch[j]

\* the offset table of the written file: the sector offset and the sector
\* count recorded for slot j
RecordedOffset(j) == ToNat(SubSeq(file, 4 * (j - 1) + 1, 4 * (j - 1) + 3))

RecordedCount(j) == file[4 * j]

Present == {j \in SlotSet : ~mca.rawdata[j].null}

\* C19: in the offset table MCA_WriteRaw_File writes, the sector ranges of
\* two present chunks are disjoint, every present chunk starts at sector 2
\* or later, and the size + 5 bytes written for a chunk lie inside its
\* recorded range
C19_OffsetTable ==
    mpc = "written" =>
        \A i \in Present :
            /\ RecordedOffset(i) >= 2
            /\ mca.size[i] + 5 <= RecordedCount(i) * SECTOR
            /\ \A j \in Present \ {i} :
                  \/ RecordedOffset(i) + RecordedCount(i) <= RecordedOffset(j)
                  \/ RecordedOffset(j) + RecordedCount(j) <= RecordedOffset(i)

\* the key a name on the wire decodes to, and the node the payload of a
\* leaf decodes to
KeyOf(name) == IF name = <<>> THEN NullStr ELSE convert_string(CStr(name))

LeafOf(w) == ParsePayload(create_nbt(w.tag), w.tag, w.payload, 0, NeverCancelled).node

\* node n and everything below it stand as the tags of w stand on the
\* wire: child i of n is the i-th tag of w
RECURSIVE InWireOrder(_, _)
InWireOrder(w, n) ==
    /\ n.type = w.tag
    /\ n.key = KeyOf(w.name)
    /\ Len(n.kids) = Len(w.kids)
    /\ w.body = "leaf" => [n EXCEPT !.key = NullStr] = LeafOf(w)
    /\ \A i \in 1..Len(w.kids) : InWireOrder(w.kids[i], n.kids[i])

\* the bytes written for n, and for every List and Compound below it, hold
\* what is written for the children one after the other in child order
RECURSIVE EmitsInOrder(_, _)
EmitsInOrder(n, writekey) ==
    LET w    == nbt_node_write_nbt_to_gbytearray(n, writekey)
        key  == IF writekey THEN nbt_node_write_key_to_gbytearray(n.key, n.type)
                ELSE <<>>
        kids == Flatten([i \in 1..Len(n.kids) |->
                    nbt_node_write_nbt_to_gbytearray(n.kids[i], n.type = TAG_Compound).bytes])
    IN /\ (n.type = TAG_List /\ w.ret = 0)
              => SubSeq(w.bytes, Len(key) + 6, Len(w.bytes)) = kids
       /\ (n.type = TAG_Compound /\ w.ret = 0) => w.bytes = key \o kids \o <<0>>
       /\ \A i \in 1..Len(n.kids) : EmitsInOrder(n.kids[i], n.type = TAG_Compound)

\* C20: in a decoded document the children of every Compound and every
\* List stand in the tree in the order of their tags on the wire, and the
\* encoder writes the children of every Compound and List in tree order
C20_ChildOrder ==
    /\ (pc # "input" /\ res.tree /\ dmg # "prefix") => InWireOrder(doc, res.root)
    /\ pc = "encoded" =>
          /\ out = nbt_node_write_nbt_to_gbytearray(res.root, TRUE)
          /\ EmitsInOrder(res.root, TRUE)

C20_Witness ==
    /\ pc = "encoded"
    /\ dmg = "none"
    /\ out.ret = 0
    /\ res.tree
    /\ res.root.type = TAG_Compound
    /\ Len(res.root.kids) = 2
    /\ res.root.kids[1].type # res.root.kids[2].type
    /\ res.root.kids[2].type = TAG_List
    /\ InWireOrder(doc, res.root)

\* the integer leaves of w hold in value_i the sign-extended value of their
\* payload on the wire
RECURSIVE IntsSignExtended(_, _)
IntsSignExtended(w, n) ==
    /\ (w.body = "leaf" /\ w.tag \in {TAG_Byte, TAG_Short, TAG_Int, TAG_Long})
          => n.value_i = SignExtend(w.payload, 8)
    /\ \A i \in 1..Len(w.kids) : IntsSignExtended(w.kids[i], n.kids[i])

\* C21: a decoded Byte, Short, Int or Long holds in value_i the
\* sign-extended value of the big-endian integer of its width
C21_SignExtended ==
    (pc # "input" /\ res.tree /\ dmg # "prefix") => IntsSignExtended(doc, res.root)

\* the Float and Double leaves of n are written as the bytes of their bit
\* pattern, most significant first, which are the bytes w has on the wire
RECURSIVE FloatsBigEndian(_, _)
FloatsBigEndian(w, n) ==
    /\ n.type \in {TAG_Float, TAG_Double} =>
          /\ nbt_node_write_nbt_to_gbytearray(n, FALSE).bytes = n.value_d
          /\ nbt_node_write_nbt_to_gbytearray(n, FALSE).bytes = w.payload
    /\ \A i \in 1..Len(w.kids) : FloatsBigEndian(w.kids[i], n.kids[i])

\* C22: the encoder writes a Float or Double as the big-endian bytes of its
\* bit pattern, the order LIBNBT_getFloat and LIBNBT_getDouble read, so that
\* decoding and encoding gives the bytes back
C22_FloatBigEndian ==
    (pc = "encoded" /\ dmg # "prefix") => FloatsBigEndian(doc, res.root)

\* the width of the elements, the length declared, and the bytes that
\* follow the length in the input
ArrayWidth(tag) == IF tag = TAG_Byte_Array THEN 1 ELSE IF tag = TAG_Int_Array THEN 4 ELSE 8

Declared(w) == SubSeq(w.payload, 1, 4)

Remaining(w) == Len(w.payload) - 4

\* cursor + N * width is within the length, the product not wrapped
ArrayFits(w) ==
    /\ ~Huge(Declared(w))
    /\ ToNat(Declared(w)) <= Remaining(w) \div ArrayWidth(w.tag)

\* C23: an array whose declared length times the element width reaches
\* beyond the input is refused, for every 32-bit length; the elements are
\* allocated and copied only when all their bytes are present
C23_ArrayBounds ==
    (pc = "decoded" /\ doc.tag \in ArrayTags) =>
        /\ res.tree <=> ArrayFits(doc)
        /\ res.tree =>
              /\ res.root.a_len = ToNat(Declared(doc))
              /\ Len(res.root.value_a) % ArrayWidth(doc.tag) = 0
              /\ Len(res.root.value_a) \div ArrayWidth(doc.tag) = res.root.a_len

\* the sectors size + 5 bytes take: the ceiling of (size + 5) / SECTOR
SectorsOf(size) == (size + 5 + SECTOR - 1) \div SECTOR

\* the present slot that follows slot i, 0 when there is none
NextPresent(i) ==
    IF \E j \in Present : j > i
    THEN CHOOSE j \in Present : j > i /\ \A k \in Present : k > i => j <= k
    ELSE 0

\* C24: for each present slot MCA_WriteRaw_File advances the cursor by the
\* ceiling of (size + 5) / SECTOR and records that value as the slot's
\* sector count, also when size + 5 is a multiple of the sector size
C24_CursorAdvance ==
    mpc = "written" =>
        \A i \in Present :
            /\ RecordedCount(i) = SectorsOf(mca.size[i])
            /\ NextPresent(i) # 0 =>
                  RecordedOffset(NextPresent(i)) - RecordedOffset(i) = SectorsOf(mca.size[i])

\* the chunk the offset table of the region bytes names for slot j: where
\* it starts, and its length field when the four bytes are there
ChunkStart(j) == RecordedOffset(j) * SECTOR

ChunkNamed(j) ==
    /\ RecordedOffset(j) # 0
    /\ (RecordedOffset(j) + RecordedCount(j)) * SECTOR <= Len(file)

LengthField(j) == SubSeq(file, ChunkStart(j) + 1, ChunkStart(j) + 4)

\* the chunk of slot j is malformed: its length field is missing or 0, or
\* the start plus the length is beyond the input
Malformed(j) ==
    /\ ChunkNamed(j)
    /\ \/ ChunkStart(j) + 4 > Len(file)
       \/ LengthField(j) = Zeros(4)
       \/ Huge(LengthField(j))
       \/ ToNat(LengthField(j)) > Len(file) - ChunkStart(j)

\* C25: MCA_ReadRaw leaves the slot of a malformed chunk empty and goes on
\* when skip_chunk_error is set, fails with LIBNBT_ERROR_INVALID_DATA when
\* it is not, and reads no byte outside the input
C25_MalformedChunk ==
    (mpc = "read" /\ rd.reader = "MCA_ReadRaw" /\ \E j \in SlotSet : Malformed(j)) =>
        /\ ~rd.overread
        /\ ~rd.skip => rd.ret = LIBNBT_ERROR_INVALID_DATA
        /\ rd.skip => /\ rd.ret = 0
                      /\ \A j \in SlotSet : Malformed(j) => rd.mca.rawdata[j].null

(***************************************************************************)
(* What a decode allocates and does not release (src/nbt_parse.c).  An     *)
(* allocation is named by what it is and by the path, from the root, of    *)
(* the node it belongs to.                                                 *)
(***************************************************************************)
Alloc(what, at) == [what |-> what, at |-> at]

\* what nbt_data_free releases of one node: the key, the value buffer and
\* the NbtData itself
DataOf(data, at) ==
    {Alloc("NbtData", at)}
        \cup (IF data.key.null THEN {} ELSE {Alloc("key", at)})
        \cup (IF HasValueBuffer(data) THEN {Alloc("value", at)} ELSE {})

\* what g_node_destroy leaves of a tree: it releases the GNodes and none of
\* the data they point to
RECURSIVE g_node_destroy(_, _)
g_node_destroy(node, at) ==
    DataOf(node, at)
        \cup UNION {g_node_destroy(node.kids[i], Append(at, i)) :
                        i \in 1..Len(node.kids)}


\* the allocations of nbt_node_new_opt that are neither released nor handed
\* to the caller when it returns: the decompressor is never unreferenced,
\* the output buffer, the copy of the input and the reader are freed on
\* every path, a failing element is released with nbt_node_free by the
\* loop that read it, and the root is released with g_node_destroy
Unreleased(data, stray, o) ==
    LET format == DetectFormat(data, stray)
        z      == Decompress(format, data)
        loop   == DecompressLoop(format, data, o)
        zlib   == IF format = "NONE" THEN {} ELSE {Alloc("decompressor", <<>>)}
    IN
    IF format # "NONE" /\ (loop.set \/ loop.result = "ERROR") THEN zlib
    ELSE IF format # "NONE" /\ loop.polls = 0 THEN zlib
    ELSE
    LET buffer == IF format = "NONE" THEN init_buffer_dup(data)
                  ELSE [null |-> FALSE, data |-> z.bytes]
        polls  == IF format = "NONE" THEN o.polls ELSE Spend(loop.polls, 1)
        r      == parse_value(create_nbt(TAG_End), buffer, FALSE, polls)
    IN
    IF r.ret # 0 THEN zlib \cup g_node_destroy(r.node, <<>>)
    ELSE zlib

\* the calls that end in the result recorded
CallsOf == {stray \in StrayBytes :
               Returns(input, stray, opt) /\ nbt_node_new_opt(input, stray, opt) = res}

\* C26: when nbt_node_new_opt has failed (it returned no tree), every
\* allocation made for that decode has been released
C26_ReleasedOnFailure ==
    (pc = "decoded" /\ ~res.tree) =>
        \A stray \in CallsOf : Unreleased(input, stray, opt) = {}

\* a is above n in the parent links
RECURSIVE Ancestor(_, _, _, _)
Ancestor(par, a, n, fuel) ==
    /\ fuel > 0
    /\ par[n] # 0
    /\ (par[n] = a \/ Ancestor(par, a, par[n], fuel - 1))

\* no node is its own ancestor and every node listed as a child has the
\* parent it is listed under
Forest(par, chl) ==
    \A n \in 1..Len(par) :
        /\ ~Ancestor(par, n, n, Len(par))
        /\ \A i \in 1..Len(chl[n]) : par[chl[n][i]] = n

\* C27: a builder or insertion call that reports success leaves the nodes
\* a forest when they were one before it, also when the parent passed is
\* the inserted node itself or one of its descendants
C27_Forest ==
    (tpc = "returned" /\ call.ret /\ Forest(call.old_parent, call.old_children))
        => Forest(parent, children)

\* C28: every call of nbt_node_new_opt returns, whatever the input and
\* whether or not an error out-parameter is passed: the decompression loop
\* is never left running
C28_Terminates == pc # "decompressing"

(***************************************************************************)
(* The reader on its own (src/nbt_parse.c): the primitive reads, the name  *)
(* read and parse_value applied at the cursor of a buffer, one after the   *)
(* other as a decode makes them.  A decode gives up after the first read   *)
(* that fails.                                                             *)
(***************************************************************************)
\* the buffers read: the wire documents of the decoder and of the arrays
CursorData == {WireTag(d) : d \in Docs \cup ArrayDocs}

\* the last call: the function, what it returned and where the cursor was
Fetched(fn, ret, from) == [fn |-> fn, ret |-> ret, from |-> from]

Primitives ==
    {"LIBNBT_getUint8", "LIBNBT_getUint16", "LIBNBT_getUint32", "LIBNBT_getUint64",
     "LIBNBT_getFloat", "LIBNBT_getDouble"}

\* sizeof of what a primitive reads
WidthOf(fn) ==
    IF fn = "LIBNBT_getUint8" THEN 1
    ELSE IF fn = "LIBNBT_getUint16" THEN 2
    ELSE IF fn \in {"LIBNBT_getUint32", "LIBNBT_getFloat"} THEN 4
    ELSE 8

\* the decode is still reading: no call has failed
Reading ==
    \/ fetched.fn = "none"
    \/ fetched.fn = "parse_value" /\ fetched.ret = 0
    \/ fetched.fn \notin {"none", "parse_value"} /\ fetched.ret # 0

CursorInit ==
    /\ \E d \in CursorData : cursor = [data |-> d, pos |-> 0]
    /\ fetched = NoneRead
    /\ CodecIdle
    /\ StrIdle
    /\ TreeIdle
    /\ McaIdle

Fetch(fn, r) ==
    /\ cursor' = [cursor EXCEPT !.pos = r.pos]
    /\ fetched' = Fetched(fn, r.n, cursor.pos)
    /\ UNCHANGED <<codec_vars, str_vars, tree_vars, mca_vars>>

GetUint8 ==
    /\ Reading
    /\ Fetch("LIBNBT_getUint8", LIBNBT_getUint8(cursor.data, cursor.pos))

GetUint16 ==
    /\ Reading
    /\ Fetch("LIBNBT_getUint16", LIBNBT_getUint16(cursor.data, cursor.pos))

GetUint32 ==
    /\ Reading
    /\ Fetch("LIBNBT_getUint32", LIBNBT_getUint32(cursor.data, cursor.pos))

GetUint64 ==
    /\ Reading
    /\ Fetch("LIBNBT_getUint64", LIBNBT_getUint64(cursor.data, cursor.pos))

GetFloat ==
    /\ Reading
    /\ Fetch("LIBNBT_getFloat", LIBNBT_getFloat(cursor.data, cursor.pos))

GetDouble ==
    /\ Reading
    /\ Fetch("LIBNBT_getDouble", LIBNBT_getDouble(cursor.data, cursor.pos))

GetKey ==
    /\ Reading
    /\ Fetch("LIBNBT_getKey", LIBNBT_getKey(cursor.data, cursor.pos))

\* parse_value at the cursor: on a node of no kind yet, which reads the tag
\* and the name, or as the element of a List of arrays
ParseAt ==
    /\ Reading
    /\ \E tag \in {TAG_End} \cup ArrayTags :
          \E r \in {ParseValue(create_nbt(tag), cursor.data, cursor.pos,
                               tag # TAG_End, NeverCancelled)} :
             /\ cursor' = [cursor EXCEPT !.pos = r.pos]
             /\ fetched' = Fetched("parse_value", r.ret, cursor.pos)
    /\ UNCHANGED <<codec_vars, str_vars, tree_vars, mca_vars>>

CursorNext ==
    GetUint8 \/ GetUint16 \/ GetUint32 \/ GetUint64 \/ GetFloat \/ GetDouble
        \/ GetKey \/ ParseAt

SpecCursor == CursorInit /\ [][CursorNext]_vars

\* C29: the reader's cursor is never beyond the length of its buffer; a
\* primitive read that fails returns 0 and leaves the cursor where it was,
\* one that succeeds returns the width read and moves the cursor by it
C29_Cursor ==
    /\ cursor.pos >= 0
    /\ cursor.pos <= Len(cursor.data)
    /\ fetched.fn \in Primitives =>
          IF fetched.from + WidthOf(fetched.fn) > Len(cursor.data)
          THEN fetched.ret = 0 /\ cursor.pos = fetched.from
          ELSE /\ fetched.ret = WidthOf(fetched.fn)
               /\ cursor.pos = fetched.from + WidthOf(fetched.fn)

\* a 32-bit read has failed after other reads have moved the cursor
C29_Witness ==
    /\ fetched.fn = "LIBNBT_getUint32"
    /\ fetched.ret = 0
    /\ fetched.from > 0
    /\ cursor.pos = fetched.from

====
